---- MODULE Spec2Model ----
(***************************************************************************)
(* A model of the Amplify access-log downloader: the local CLI            *)
(* (src/local/amplify_logs.py: generate_time_ranges, process_time_range,  *)
(* download_logs) and the log-downloader Lambda (download_amplify_logs,   *)
(* handle_large_time_range).                                              *)
(*                                                                         *)
(* A datetime is a record [s, us]: whole seconds since midnight of day 0  *)
(* and microseconds, as Python's datetime keeps microsecond resolution.   *)
(* A timedelta is the same record, normalised so that 0 <= us < US.       *)
(***************************************************************************)
EXTENDS Integers, Sequences, FiniteSets, TLC

\* ------------------------------------------------------------------ bounds
MaxDay == 3
MaxChunkDays == 2
MaxNegChunk == 1
MaxRanges == 5
MaxRunDay == 1
MaxSplits == 2

MaxRerunDay == 0

MaxRerunSplits == 1

MaxShortSeconds == 1

MaxUploaded == 2
MaxLambdaCalls == 5
MaxLambdaDay == 0
MaxStartMicro == 1

\* ------------------------------------------------------- program constants
US == 1000000
DaySeconds == 86400
DepthLimit == 2
max_retries == 3
retry_delay == 2
max_depth == 3

\* ---------------------------------------------------------- datetime model
Time(sec, usec) == [s |-> sec, us |-> usec]

TLe(a, b) == a.s < b.s \/ (a.s = b.s /\ a.us <= b.us)

TLt(a, b) == a.s < b.s \/ (a.s = b.s /\ a.us < b.us)

TMin(a, b) == IF TLe(a, b) THEN a ELSE b

\* datetime + timedelta and datetime - timedelta
TAdd(t, d) == Time(t.s + d.s + ((t.us + d.us) \div US), (t.us + d.us) % US)

TSub(a, b) == Time(a.s - b.s + ((a.us - b.us) \div US), (a.us - b.us) % US)

\* timedelta(days=n) and timedelta(seconds=n)
Days(n) == Time(n * DaySeconds, 0)

Seconds(n) == Time(n, 0)

\* timedelta // 2: floor division, to the microsecond
FloorHalf(d) == Time(d.s \div 2, (d.us + (d.s % 2) * US) \div 2)

\* timedelta / 2: true division, rounded half-to-even to the microsecond
TrueHalf(d) ==
    LET f == FloorHalf(d)
    IN  IF d.us % 2 = 0 \/ f.us % 2 = 0 THEN f ELSE TAdd(f, Time(0, 1))

\* datetime.isoformat(timespec='seconds') and strftime('%Y%m%d_%H%M%S'):
\* the microseconds are dropped
FormatSeconds(t) == t.s

\* datetime.combine(start_date, datetime.min.time())
StartOfDay(d) == Time(d * DaySeconds, 0)

\* datetime.combine(end_date, datetime.max.time().replace(microsecond=0))
EndOfDay(d) == Time(d * DaySeconds + (DaySeconds - 1), 0)

\* ------------------------------------------------------------------- state
VARIABLES
    start_date,       \* download_logs argument (a day number)
    end_date,         \* download_logs argument (a day number)
    chunk_size_days,  \* self.chunk_size_days
    delete_after_upload, \* download_logs argument
    pc,               \* position of download_logs: "gen", "loop", "done"
    current_start,    \* generate_time_ranges: loop variable
    ranges,           \* generate_time_ranges: the list built so far
    i,                \* download_logs: number of chunks already accounted
    stack,            \* the process_time_range invocations in progress, innermost last
    ret,              \* the value the last finished process_time_range returned, or NoRet
    stats,            \* self.stats
    app_stats,        \* download_logs: app_stats
    files,            \* keys of the log files present under FIXED_OUTPUT_DIR
    s3,               \* keys of the objects uploaded to S3_BUCKET
    remote,           \* the remote log API of this run: "any" or "always_split"
    hist,             \* history of the current run (not program state)
    rerun,            \* history across the runs of one downloader (not program state)
    lam_start,        \* Lambda: the event's timeRange.startTime
    lam_end,          \* Lambda: the event's timeRange.endTime
    lam_stack,        \* Lambda: download_amplify_logs / handle_large_time_range calls in progress
    lam_ret,          \* Lambda: the list the last finished call returned, or NoList
    temp_files,       \* Lambda: the files under temp_dir, key -> content
    lam_hist,         \* Lambda: history of the invocation (not program state)
    lam_result,       \* Lambda: what lambda_handler returned, or NoResult
    lam_bucket,       \* Lambda: keys of the objects uploaded to the event's bucket
    lam_event,        \* Lambda: the parameters the event carries, as "section.key"
    temp_dir,         \* Lambda: the temporary directory: "none", "exists" or "removed"
    s3_called,        \* Lambda: whether a request was made to S3 (not program state)
    orch_start,       \* orchestration Lambda: generate_time_ranges argument start_date
    orch_end,         \* orchestration Lambda: generate_time_ranges argument end_date
    orch_chunk,       \* orchestration Lambda: generate_time_ranges argument chunk_size_days
    orch_pc,          \* orchestration Lambda: "idle", "gen" or "done"
    orch_current,     \* orchestration Lambda: generate_time_ranges: current_start
    orch_ranges,      \* orchestration Lambda: generate_time_ranges: time_ranges
    pipe_name,        \* pipeline Lambda: os.environ.get('CRAWLER_NAME'), "" when unset
    pipe_event,       \* pipeline Lambda: the event's statusCode, body and uploadedFiles
    pipe_pc,          \* pipeline Lambda: "idle", "entry", "s3check", "get", "found", "done"
    pipe_state,       \* pipeline Lambda: crawler_state as get_crawler answered it
    pipe_started,     \* pipeline Lambda: number of start_crawler calls (not program state)
    pipe_result       \* pipeline Lambda: the statusCode returned, 0 before the return

handlerVars == <<lam_result, lam_bucket, lam_event, temp_dir, s3_called>>

lamVars == <<lam_start, lam_end, lam_stack, lam_ret, temp_files, lam_hist, handlerVars>>

localVars == <<start_date, end_date, chunk_size_days, delete_after_upload, pc,
               current_start, ranges, i, stack, ret, stats, app_stats, files, s3,
               remote, hist, rerun>>

orchVars == <<orch_start, orch_end, orch_chunk, orch_pc, orch_current, orch_ranges>>

pipeVars == <<pipe_name, pipe_event, pipe_pc, pipe_state, pipe_started, pipe_result>>

vars == <<localVars, lamVars, orchVars, pipeVars>>

inputs == <<start_date, end_date, chunk_size_days, delete_after_upload, remote>>

genVars == <<current_start, ranges>>

storeVars == <<files, s3>>

\* -------------------------------------------------- generate_time_ranges
ChunkEnd_NoTruncate(cur, days, end_time) == TSub(TAdd(cur, Days(days)), Seconds(1))

ChunkEnd(cur, days, end_time) ==
    TMin(TSub(TAdd(cur, Days(days)), Seconds(1)), end_time)

NextStart_NoOffset(chunk_end) == chunk_end

NextStart(chunk_end) == TAdd(chunk_end, Seconds(1))

\* ------------------------------------------------- remote log API (local)
\* An error text is a sequence of words; Python's `needle in text` is then
\* "needle is a contiguous run of words of text".
Contains(text, needle) ==
    \E k \in 0..(Len(text) - Len(needle)) :
        SubSeq(text, k + 1, k + Len(needle)) = needle

ReduceTimeRange == <<"reduce", "time", "range">>

TooManyRecords == <<"Too", "many", "records">>

ErrorTexts ==
    { <<"Too", "many", "records", "requested", "please", "reduce", "time", "range">>,
      <<"Too", "many", "records">>,
      <<"Rate", "exceeded">> }

Bodies == {"", "log line", "REDUCE_RANGE"}

Resp(kind, stderr, status, text) ==
    [kind |-> kind, stderr |-> stderr, status |-> status, text |-> text]

\* What one run of `aws amplify generate-access-logs`, and the GET of the log
\* URL it answers, can produce.
LocalResponses ==
    { Resp("cmd_error", e, 0, "") : e \in ErrorTexts }
      \cup { Resp(k, <<>>, 0, "") : k \in {"no_stdout", "bad_json", "no_logurl", "get_raised"} }
      \cup { Resp("log_url", <<>>, 200, b) : b \in Bodies }
      \cup { Resp("log_url", <<>>, 403, "") }

\* one response of each kind that process_time_range tells apart
PlainResponses ==
    { Resp("cmd_error", ReduceTimeRange, 0, ""),
      Resp("log_url", <<>>, 200, ""),
      Resp("log_url", <<>>, 200, "log line"),
      Resp("log_url", <<>>, 403, "") }

\* the responses of the remote: where two runs are followed, one of each kind
Responses == IF rerun.run = 0 THEN LocalResponses ELSE PlainResponses

\* how often a remote that answers freely asks for a smaller range
SplitBudget == IF rerun.run = 0 THEN MaxSplits ELSE MaxRerunSplits

Str(v) == [type |-> "str", val |-> v]

Dict == [type |-> "dict", val |-> "response"]

None == [type |-> "none", val |-> ""]

\* AmplifyLogDownloader.get_amplify_logs: the value returned for a response
get_amplify_logs(resp) ==
    CASE resp.kind = "cmd_error" ->
            IF Contains(resp.stderr, ReduceTimeRange) THEN Str("REDUCE_RANGE") ELSE None
      [] resp.kind = "log_url" ->
            IF resp.status = 200 THEN Str(resp.text) ELSE None
      [] resp.kind = "no_logurl" -> Dict
      [] OTHER -> None

IsReduceRange(logs) == logs = Str("REDUCE_RANGE")

IsEmptyLogs(logs) == logs.type = "str" /\ logs.val = ""

\* ---------------------------------------------------- process_time_range
NoRet == [set |-> FALSE, success |-> FALSE, is_empty |-> FALSE]

Ret(success, is_empty) == [set |-> TRUE, success |-> success, is_empty |-> is_empty]

NoResp == Resp("none", <<>>, 0, "")

Frame(start_time, end_time, depth) ==
    [start |-> start_time, end |-> end_time, depth |-> depth, at |-> "entry",
     success1 |-> FALSE, empty1 |-> FALSE, resp |-> NoResp]

Top == stack[Len(stack)]

Pop == SubSeq(stack, 1, Len(stack) - 1)

SetTop(f) == [stack EXCEPT ![Len(stack)] = f]

DepthExceeded_Off(depth) == depth > DepthLimit + 1

DepthExceeded(depth) == depth > DepthLimit

MidTime_FromZero(start_time, end_time) == FloorHalf(TSub(end_time, start_time))

\* mid_time = start_time + (end_time - start_time) // 2
MidTime(start_time, end_time) == TAdd(start_time, FloorHalf(TSub(end_time, start_time)))

FirstHalf(start_time, end_time) == <<start_time, MidTime(start_time, end_time)>>

SecondHalf(start_time, end_time) == <<MidTime(start_time, end_time), end_time>>

Depths == 0..(DepthLimit + 2)

Bump(f, d) == [f EXCEPT ![d] = @ + 1]

\* the API failed with the range-too-large text in its error output
IsRangeTooLarge(resp) ==
    resp.kind = "cmd_error" /\ Contains(resp.stderr, ReduceTimeRange)

\* what is remembered of the process_time_range invocation that returned last:
\* its range and depth, the number of API calls it made for its range, whether
\* the API signalled range-too-large, how it ended and what it returned
Last(f, resp, attempts, outcome, success) ==
    [start |-> f.start, end |-> f.end, depth |-> f.depth, attempts |-> attempts,
     signal |-> IsRangeTooLarge(resp), outcome |-> outcome, success |-> success]

\* what the remote side did on one request: the response of the log API and,
\* where the logs were persisted, whether the file was written and how the
\* upload ended
Answer(resp, saved, upload) == [resp |-> resp, saved |-> saved, upload |-> upload]

\* the remote gives the same responses in a second run: a range requested in
\* the first run is answered as it was then
SameAsBefore(f, answer) ==
    rerun.run = 2 =>
        \A k \in 1..Len(rerun.first.log) :
            (rerun.first.log[k].start = f.start /\ rerun.first.log[k].end = f.end)
                => rerun.first.log[k].answer = answer

\* the request for the range of f, its answer and the keys it uploaded are
\* added to the history of the run
Noted(f, answer, keys) ==
    IF rerun.run = 0 THEN rerun
    ELSE [rerun EXCEPT !.log = Append(@, [start |-> f.start, end |-> f.end,
                                          answer |-> answer]),
                       !.keys = @ \cup keys]

Sleep_Skipped(h) == h

\* time.sleep(1): a delay has passed since the last call of the log API
Sleep(h) == [h EXCEPT !.slept = TRUE]

\* depth > 2: give up without calling the API
PTR_DepthLimit ==
    /\ stack # <<>>
    /\ Top.at = "entry"
    /\ ret = NoRet
    /\ DepthExceeded(Top.depth)
    /\ stack' = Pop
    /\ ret' = Ret(FALSE, FALSE)
    /\ hist' = [hist EXCEPT !.invocations = Bump(@, Top.depth),
                            !.last = Last(Top, NoResp, 0, "depth", FALSE)]
    /\ UNCHANGED <<pipeVars, lamVars, orchVars, rerun, inputs, pc, genVars, i, stats, app_stats, storeVars>>

\* logs == "REDUCE_RANGE": recurse on the first half
PTR_Reduce ==
    /\ stack # <<>>
    /\ Top.at = "entry"
    /\ ret = NoRet
    /\ ~DepthExceeded(Top.depth)
    /\ remote = "any" => hist.splits < SplitBudget
    /\ \E resp \in Responses :
          /\ IsReduceRange(get_amplify_logs(resp))
          /\ SameAsBefore(Top, Answer(resp, TRUE, "ok"))
          /\ rerun' = Noted(Top, Answer(resp, TRUE, "ok"), {})
          /\ LET half == FirstHalf(Top.start, Top.end)
             IN  stack' = Append(SetTop([Top EXCEPT !.at = "first", !.resp = resp]),
                                 Frame(half[1], half[2], Top.depth + 1))
    /\ hist' = [hist EXCEPT !.invocations = Bump(@, Top.depth),
                            !.calls = Bump(@, Top.depth),
                            !.slept = FALSE,
                            !.splits = @ + 1]
    /\ UNCHANGED <<pipeVars, lamVars, orchVars, inputs, pc, genVars, i, ret, stats, app_stats, storeVars>>

\* the first half returned: sleep, then recurse on the second half
PTR_AfterFirst ==
    /\ stack # <<>>
    /\ Top.at = "first"
    /\ ret # NoRet
    /\ LET half == SecondHalf(Top.start, Top.end)
       IN  stack' = Append(SetTop([Top EXCEPT !.at = "second",
                                              !.success1 = ret.success,
                                              !.empty1 = ret.is_empty]),
                           Frame(half[1], half[2], Top.depth + 1))
    /\ ret' = NoRet
    /\ hist' = Sleep(hist)
    /\ UNCHANGED <<pipeVars, lamVars, orchVars, rerun, inputs, pc, genVars, i, stats, app_stats, storeVars>>

CombineSuccess_Both(success1, success2) == success1 /\ success2

\* success1 or success2
CombineSuccess(success1, success2) == success1 \/ success2

\* the second half returned: (success1 or success2), (empty1 and empty2)
PTR_AfterSecond ==
    /\ stack # <<>>
    /\ Top.at = "second"
    /\ ret # NoRet
    /\ stack' = Pop
    /\ ret' = Ret(CombineSuccess(Top.success1, ret.success), Top.empty1 /\ ret.is_empty)
    /\ hist' = [hist EXCEPT
          !.last = Last(Top, Top.resp, 1, "split",
                        CombineSuccess(Top.success1, ret.success)),
          !.partial = IF Top.depth = 0 /\ Top.success1 /\ ~ret.success
                      THEN @ \cup {SecondHalf(Top.start, Top.end)} ELSE @]
    /\ UNCHANGED <<pipeVars, lamVars, orchVars, rerun, inputs, pc, genVars, i, stats, app_stats, storeVars>>

\* an empty string came back: success, nothing is written
PTR_Empty ==
    /\ stack # <<>>
    /\ Top.at = "entry"
    /\ ret = NoRet
    /\ remote = "any"
    /\ ~DepthExceeded(Top.depth)
    /\ \E resp \in Responses :
          /\ ~IsReduceRange(get_amplify_logs(resp))
          /\ SameAsBefore(Top, Answer(resp, TRUE, "ok"))
          /\ rerun' = Noted(Top, Answer(resp, TRUE, "ok"), {})
          /\ get_amplify_logs(resp) # None
          /\ IsEmptyLogs(get_amplify_logs(resp))
          /\ hist' = [hist EXCEPT !.invocations = Bump(@, Top.depth),
                                  !.calls = Bump(@, Top.depth),
                                  !.slept = FALSE,
                                  !.allSplit = FALSE,
                                  !.last = Last(Top, resp, 1, "empty", TRUE)]
    /\ stack' = Pop
    /\ ret' = Ret(TRUE, TRUE)
    /\ UNCHANGED <<pipeVars, lamVars, orchVars, inputs, pc, genVars, i, stats, app_stats, storeVars>>

\* the API call failed (None came back)
PTR_NoLogs ==
    /\ stack # <<>>
    /\ Top.at = "entry"
    /\ ret = NoRet
    /\ remote = "any"
    /\ ~DepthExceeded(Top.depth)
    /\ \E resp \in Responses :
          /\ ~IsReduceRange(get_amplify_logs(resp))
          /\ SameAsBefore(Top, Answer(resp, TRUE, "ok"))
          /\ rerun' = Noted(Top, Answer(resp, TRUE, "ok"), {})
          /\ get_amplify_logs(resp) = None
          /\ hist' = [hist EXCEPT !.invocations = Bump(@, Top.depth),
                                  !.calls = Bump(@, Top.depth),
                                  !.slept = FALSE,
                                  !.allSplit = FALSE,
                                  !.last = Last(Top, resp, 1, "none", FALSE)]
    /\ stack' = Pop
    /\ ret' = Ret(FALSE, FALSE)
    /\ UNCHANGED <<pipeVars, lamVars, orchVars, inputs, pc, genVars, i, stats, app_stats, storeVars>>

StorageKey_PerRun(timestamp) == FormatSeconds(timestamp) + rerun.run

StorageKey_DateOnly(timestamp) == timestamp.s \div DaySeconds

\* upload_to_s3: the key is built from the timestamp, to whole seconds
StorageKey(timestamp) == FormatSeconds(timestamp)

\* upload_to_s3 returns True on success and False on either kind of failure
UploadResult(upload) == upload = "ok"

\* logs with content: save_logs_locally(logs, end_time), then upload_to_s3
PTR_Persist ==
    /\ stack # <<>>
    /\ Top.at = "entry"
    /\ ret = NoRet
    /\ remote = "any"
    /\ ~DepthExceeded(Top.depth)
    /\ \E resp \in Responses, saved \in BOOLEAN,
          upload \in {"ok", "cmd_error", "exception"} :
          LET logs == get_amplify_logs(resp)
              key == StorageKey(Top.end)
              s3_success == UploadResult(upload)
              f == Top
          IN  /\ ~IsReduceRange(logs)
              /\ logs # None
              /\ ~IsEmptyLogs(logs)
              /\ SameAsBefore(f, Answer(resp, saved, upload))
              /\ rerun' = Noted(f, Answer(resp, saved, upload),
                                IF saved /\ upload = "ok" THEN {key} ELSE {})
              /\ IF ~saved
                 THEN \* save_logs_locally raised: caught by process_time_range
                      /\ upload = "ok"
                      /\ ret' = Ret(FALSE, FALSE)
                      /\ UNCHANGED <<stats, storeVars>>
                      /\ hist' = [hist EXCEPT !.invocations = Bump(@, Top.depth),
                                              !.calls = Bump(@, Top.depth),
                                              !.slept = FALSE,
                                              !.allSplit = FALSE,
                                              !.last = Last(f, resp, 1, "save_failed", FALSE)]
                 ELSE /\ ret' = Ret(s3_success, FALSE)
                      /\ files' = IF upload = "ok" /\ delete_after_upload
                                  THEN files \ {key} ELSE files \cup {key}
                      /\ s3' = IF upload = "ok" THEN s3 \cup {key} ELSE s3
                      /\ stats' = IF upload = "ok" THEN stats
                                  ELSE [stats EXCEPT !.upload_failures = @ + 1]
                      /\ hist' = [hist EXCEPT
                            !.invocations = Bump(@, Top.depth),
                            !.calls = Bump(@, Top.depth),
                            !.slept = FALSE,
                            !.allSplit = FALSE,
                            !.last = Last(f, resp, 1, IF upload = "ok" THEN "stored"
                                             ELSE "upload_failed", s3_success)]
    /\ stack' = Pop
    /\ UNCHANGED <<pipeVars, lamVars, orchVars, inputs, pc, genVars, i, app_stats>>

\* ------------------------------------------------- generate_time_ranges
\* one iteration of the while loop
GenStep ==
    /\ pc = "gen"
    /\ TLe(current_start, EndOfDay(end_date))
    /\ Len(ranges) < MaxRanges
    /\ LET chunk_end == ChunkEnd(current_start, chunk_size_days, EndOfDay(end_date))
       IN  /\ ranges' = Append(ranges, <<current_start, chunk_end>>)
           /\ current_start' = NextStart(chunk_end)
    /\ UNCHANGED <<pipeVars, lamVars, orchVars, rerun, inputs, pc, i, stack, ret, stats, app_stats, storeVars, hist>>

\* the loop condition fails: generate_time_ranges returns, and download_logs
\* sets total_chunks = len(time_ranges)
GenReturn ==
    /\ pc = "gen"
    /\ ~TLe(current_start, EndOfDay(end_date))
    /\ pc' = "loop"
    /\ stats' = [stats EXCEPT !.total_chunks = Len(ranges)]
    /\ app_stats' = [app_stats EXCEPT !.total_chunks = Len(ranges)]
    /\ UNCHANGED <<pipeVars, lamVars, orchVars, rerun, inputs, genVars, i, stack, ret, storeVars, hist>>

\* ---------------------------------------------------------- download_logs
ZeroCounts == [d \in Depths |-> 0]

NoLast == Last(Frame(Time(0, 0), Time(0, 0), 0), NoResp, 0, "nothing", FALSE)

NoHistory ==
    [calls |-> ZeroCounts, invocations |-> ZeroCounts, allSplit |-> TRUE,
     splits |-> 0, slept |-> FALSE, last |-> NoLast, partial |-> {}]

\* app_stats as download_logs creates it
NoAppStats ==
    [total_chunks |-> 0, successful_chunks |-> 0, failed_chunks |-> 0,
     empty_logs_chunks |-> 0, failed_ranges |-> <<>>]

LoopDone_SkipLast(done, time_ranges) == done >= Len(time_ranges) - 1

\* `for i, (start_time, end_time) in enumerate(time_ranges, 1)` is exhausted
LoopDone(done, time_ranges) == done >= Len(time_ranges)

NextChunk_Reversed(done, time_ranges) == time_ranges[Len(time_ranges) - done]

\* the (start_time, end_time) of the loop's next iteration
NextChunk(done, time_ranges) == time_ranges[done + 1]

\* the for loop takes the next chunk: process_time_range(start_time, end_time)
DL_Start ==
    /\ pc = "loop"
    /\ stack = <<>>
    /\ ret = NoRet
    /\ ~LoopDone(i, ranges)
    /\ stack' = <<Frame(NextChunk(i, ranges)[1], NextChunk(i, ranges)[2], 0)>>
    /\ hist' = [hist EXCEPT !.calls = ZeroCounts, !.invocations = ZeroCounts,
                            !.allSplit = TRUE]
    /\ UNCHANGED <<pipeVars, lamVars, orchVars, rerun, inputs, pc, genVars, i, ret, stats, app_stats, storeVars>>

ChunkSucceeded_NotEmpty(r) == r.success /\ ~r.is_empty

ChunkSucceeded_Always(r) == TRUE

\* `if success:` on the value process_time_range returned for the chunk
ChunkSucceeded(r) == r.success

\* the chunk's outcome is counted, then time.sleep(1)
DL_Account ==
    /\ pc = "loop"
    /\ stack = <<>>
    /\ ret # NoRet
    /\ IF ChunkSucceeded(ret)
       THEN /\ stats' = [stats EXCEPT
                  !.successful_chunks = @ + 1,
                  !.empty_logs_chunks = IF ret.is_empty THEN @ + 1 ELSE @]
            /\ app_stats' = [app_stats EXCEPT
                  !.successful_chunks = @ + 1,
                  !.empty_logs_chunks = IF ret.is_empty THEN @ + 1 ELSE @]
       ELSE /\ stats' = [stats EXCEPT
                  !.failed_chunks = @ + 1,
                  !.failed_ranges = Append(@, NextChunk(i, ranges))]
            /\ app_stats' = [app_stats EXCEPT
                  !.failed_chunks = @ + 1,
                  !.failed_ranges = Append(@, NextChunk(i, ranges))]
    /\ i' = i + 1
    /\ ret' = NoRet
    /\ hist' = Sleep(hist)
    /\ UNCHANGED <<pipeVars, lamVars, orchVars, rerun, inputs, pc, genVars, stack, storeVars>>

\* every chunk is done: the report is returned
DL_Return ==
    /\ pc = "loop"
    /\ stack = <<>>
    /\ ret = NoRet
    /\ LoopDone(i, ranges)
    /\ pc' = "done"
    /\ UNCHANGED <<pipeVars, lamVars, orchVars, rerun, inputs, genVars, i, stack, ret, stats, app_stats, storeVars, hist>>

\* the runs are not followed
Untracked ==
    [run |-> 0, log |-> <<>>, keys |-> {},
     first |-> [log |-> <<>>, keys |-> {}, ranges |-> <<>>, files |-> {}, s3 |-> {}]]

\* the first download_logs call on a downloader
FirstRun == [Untracked EXCEPT !.run = 1]

\* download_logs is called again on the same downloader with the same dates:
\* app_stats is created anew, self.stats is the dictionary __init__ made
DL_Again ==
    /\ pc = "done"
    /\ rerun.run = 1
    /\ pc' = "gen"
    /\ current_start' = StartOfDay(start_date)
    /\ ranges' = <<>>
    /\ i' = 0
    /\ app_stats' = NoAppStats
    /\ hist' = NoHistory
    /\ rerun' = [run |-> 2, log |-> <<>>, keys |-> {},
                 first |-> [log |-> rerun.log, keys |-> rerun.keys, ranges |-> ranges,
                            files |-> files, s3 |-> s3]]
    /\ UNCHANGED <<pipeVars, lamVars, orchVars, inputs, stack, ret, stats, storeVars>>

\* =========================================== the log-downloader Lambda
NoList == [set |-> FALSE, paths |-> <<>>]

List(paths) == [set |-> TRUE, paths |-> paths]

LambdaBodies == {"", "log line"}

\* What one amplify_client.generate_access_logs call, and the GET of the log
\* URL it answers, can produce.
LambdaResponses ==
    { Resp("bad_request", e, 0, "") : e \in ErrorTexts }
      \cup { Resp(k, <<>>, 0, "") : k \in {"not_found", "exception", "no_logurl"} }
      \cup { Resp("log_url", <<>>, 200, b) : b \in LambdaBodies }
      \cup { Resp("log_url", <<>>, 403, "") }

\* "reduce time range" in str(e) or "Too many records" in str(e)
IsTooManyRecords(resp) ==
    /\ resp.kind = "bad_request"
    /\ Contains(resp.stderr, ReduceTimeRange) \/ Contains(resp.stderr, TooManyRecords)

\* a call of download_amplify_logs (its retry loop starts at 0) or of
\* handle_large_time_range
LamFrame(fn, start_time, end_time, depth) ==
    [fn |-> fn, start |-> start_time, end |-> end_time, depth |-> depth,
     retry |-> 0, at |-> IF fn = "download_amplify_logs" THEN "try" ELSE "entry",
     all_paths |-> <<>>, attempts |-> 0, signal |-> FALSE]

LamTop == lam_stack[Len(lam_stack)]

LamPop == SubSeq(lam_stack, 1, Len(lam_stack) - 1)

LamSetTop(f) == [lam_stack EXCEPT ![Len(lam_stack)] = f]

\* what is remembered of the download_amplify_logs call that returned last
LamLast(f, attempts, outcome, paths) ==
    [start |-> f.start, end |-> f.end, attempts |-> attempts, outcome |-> outcome,
     paths |-> paths]

NoLamLast == LamLast([start |-> Time(0, 0), end |-> Time(0, 0)], 0, "nothing", <<>>)

NoLamHistory == [calls |-> 0, slept |-> <<>>, last |-> NoLamLast, uploads |-> <<>>]

\* log_file_path: log_<start_time to the second>, under date_export=<its date>
LogFilePath(start_time) == FormatSeconds(start_time)

WriteFile(path, content) == (path :> content) @@ temp_files

\* f.write(f"# No logs found for time range {start_time} to {end_time}\n")
NoLogsMarker == "# No logs found"

RetryAgain_GiveUpEarly(retry) == retry < max_retries - 2

\* `if retry < max_retries - 1:` sleep and go round the loop again
RetryAgain(retry) == retry < max_retries - 1

Delay_Constant(retry) == retry_delay

\* delay = retry_delay * (2 ** retry)
Delay(retry) == retry_delay * (2 ^ retry)

\* handle_large_time_range(app, start_time, end_time, temp_dir): depth is not
\* passed, so the callee's default applies
SplitDepth == 0

SplitOnSignal_FirstAttemptOnly(resp, retry) == IsTooManyRecords(resp) /\ retry = 0

\* the BadRequestException handler subdivides on the text, whatever the attempt
SplitOnSignal(resp, retry) == IsTooManyRecords(resp)

\* mid_time = start_time + time_diff / 2
LamMidTime(start_time, end_time) == TAdd(start_time, TrueHalf(TSub(end_time, start_time)))

LamDownload ==
    /\ lam_stack # <<>>
    /\ LamTop.fn = "download_amplify_logs"
    /\ lam_ret = NoList

\* a failed attempt: sleep and retry, or give up with []
AfterFailure(resp, outcome) ==
    LET f == [LamTop EXCEPT !.attempts = @ + 1, !.signal = IsTooManyRecords(resp)]
    IN  IF RetryAgain(f.retry) /\ f.retry + 1 < max_retries
        THEN /\ lam_stack' = LamSetTop([f EXCEPT !.retry = @ + 1])
             /\ lam_ret' = NoList
             /\ lam_hist' = [lam_hist EXCEPT !.calls = @ + 1,
                                             !.slept = Append(@, Delay(f.retry))]
        ELSE /\ lam_stack' = LamPop
             /\ lam_ret' = List(<<>>)
             /\ lam_hist' = [lam_hist EXCEPT
                   !.calls = @ + 1,
                   !.slept = <<>>,
                   !.last = LamLast(f, f.attempts, outcome, <<>>)]

\* os.makedirs or boto3.client raised before the retry loop: the outer
\* handler returns []
DAL_SetupFailed ==
    /\ LamDownload
    /\ LamTop.at = "try"
    /\ LamTop.attempts = 0
    /\ lam_stack' = LamPop
    /\ lam_ret' = List(<<>>)
    /\ lam_hist' = [lam_hist EXCEPT
          !.slept = <<>>,
          !.last = LamLast(LamTop, 0, "setup_failed", <<>>)]
    /\ UNCHANGED <<pipeVars, localVars, orchVars, handlerVars, lam_start, lam_end, temp_files>>

\* logUrl answered and downloaded with status 200: the body is written
DAL_Downloaded ==
    /\ LamDownload
    /\ LamTop.at = "try"
    /\ lam_hist.calls < MaxLambdaCalls
    /\ \E resp \in LambdaResponses :
          /\ resp.kind = "log_url" /\ resp.status = 200
          /\ temp_files' = WriteFile(LogFilePath(LamTop.start), resp.text)
    /\ lam_stack' = LamPop
    /\ lam_ret' = List(<<LogFilePath(LamTop.start)>>)
    /\ lam_hist' = [lam_hist EXCEPT
          !.calls = @ + 1,
          !.slept = <<>>,
          !.last = LamLast(LamTop, LamTop.attempts + 1, "downloaded",
                           <<LogFilePath(LamTop.start)>>)]
    /\ UNCHANGED <<pipeVars, localVars, orchVars, handlerVars, lam_start, lam_end>>

\* logUrl answered, but the GET gave another status than 200
DAL_HttpError ==
    /\ LamDownload
    /\ LamTop.at = "try"
    /\ lam_hist.calls < MaxLambdaCalls
    /\ \E resp \in LambdaResponses :
          /\ resp.kind = "log_url" /\ resp.status # 200
          /\ AfterFailure(resp, "exhausted")
    /\ UNCHANGED <<pipeVars, localVars, orchVars, handlerVars, lam_start, lam_end, temp_files>>

\* no logUrl in the response: a file holding one comment line is written
DAL_NoLogUrl ==
    /\ LamDownload
    /\ LamTop.at = "try"
    /\ lam_hist.calls < MaxLambdaCalls
    /\ temp_files' = WriteFile(LogFilePath(LamTop.start), NoLogsMarker)
    /\ lam_stack' = LamPop
    /\ lam_ret' = List(<<LogFilePath(LamTop.start)>>)
    /\ lam_hist' = [lam_hist EXCEPT
          !.calls = @ + 1,
          !.slept = <<>>,
          !.last = LamLast(LamTop, LamTop.attempts + 1, "no_logurl",
                           <<LogFilePath(LamTop.start)>>)]
    /\ UNCHANGED <<pipeVars, localVars, orchVars, handlerVars, lam_start, lam_end>>

\* BadRequestException with the too-many-records text:
\* return handle_large_time_range(app, start_time, end_time, temp_dir)
DAL_Subdivide ==
    /\ LamDownload
    /\ LamTop.at = "try"
    /\ lam_hist.calls < MaxLambdaCalls
    /\ \E resp \in LambdaResponses :
          /\ resp.kind = "bad_request"
          /\ SplitOnSignal(resp, LamTop.retry)
          /\ lam_stack' =
                Append(LamSetTop([LamTop EXCEPT !.at = "subdivided",
                                                !.attempts = @ + 1,
                                                !.signal = IsTooManyRecords(resp)]),
                       LamFrame("handle_large_time_range", LamTop.start, LamTop.end,
                                SplitDepth))
    /\ lam_hist' = [lam_hist EXCEPT !.calls = @ + 1, !.slept = <<>>]
    /\ UNCHANGED <<pipeVars, localVars, orchVars, handlerVars, lam_start, lam_end, lam_ret, temp_files>>

\* BadRequestException without the text
DAL_BadRequest ==
    /\ LamDownload
    /\ LamTop.at = "try"
    /\ lam_hist.calls < MaxLambdaCalls
    /\ \E resp \in LambdaResponses :
          /\ resp.kind = "bad_request"
          /\ ~SplitOnSignal(resp, LamTop.retry)
          /\ AfterFailure(resp, "exhausted")
    /\ UNCHANGED <<pipeVars, localVars, orchVars, handlerVars, lam_start, lam_end, temp_files>>

\* ResourceNotFoundException: return [] at once
DAL_NotFound ==
    /\ LamDownload
    /\ LamTop.at = "try"
    /\ lam_hist.calls < MaxLambdaCalls
    /\ lam_stack' = LamPop
    /\ lam_ret' = List(<<>>)
    /\ lam_hist' = [lam_hist EXCEPT
          !.calls = @ + 1,
          !.slept = <<>>,
          !.last = LamLast(LamTop, LamTop.attempts + 1, "not_found", <<>>)]
    /\ UNCHANGED <<pipeVars, localVars, orchVars, handlerVars, lam_start, lam_end, temp_files>>

\* any other exception of the API call, the GET or the file write
DAL_Exception ==
    /\ LamDownload
    /\ LamTop.at = "try"
    /\ lam_hist.calls < MaxLambdaCalls
    /\ AfterFailure(Resp("exception", <<>>, 0, ""), "exhausted")
    /\ UNCHANGED <<pipeVars, localVars, orchVars, handlerVars, lam_start, lam_end, temp_files>>

\* handle_large_time_range returned: download_amplify_logs returns its list
DAL_ReturnSubdivided ==
    /\ lam_stack # <<>>
    /\ LamTop.fn = "download_amplify_logs"
    /\ LamTop.at = "subdivided"
    /\ lam_ret # NoList
    /\ lam_stack' = LamPop
    /\ lam_hist' = [lam_hist EXCEPT
          !.last = LamLast(LamTop, LamTop.attempts, "subdivided", lam_ret.paths)]
    /\ UNCHANGED <<pipeVars, localVars, orchVars, handlerVars, lam_start, lam_end, lam_ret, temp_files>>

\* handle_large_time_range: the depth check, then the first half
HLR_Enter ==
    /\ lam_stack # <<>>
    /\ LamTop.fn = "handle_large_time_range"
    /\ LamTop.at = "entry"
    /\ IF LamTop.depth >= max_depth
       THEN /\ lam_stack' = LamPop
            /\ lam_ret' = List(<<>>)
       ELSE /\ lam_stack' =
                  Append(LamSetTop([LamTop EXCEPT !.at = "first"]),
                         LamFrame("download_amplify_logs", LamTop.start,
                                  LamMidTime(LamTop.start, LamTop.end), 0))
            /\ lam_ret' = NoList
    /\ UNCHANGED <<pipeVars, localVars, orchVars, handlerVars, lam_start, lam_end, temp_files, lam_hist>>

\* all_paths.extend(first_half); time.sleep(1); the second half
HLR_AfterFirst ==
    /\ lam_stack # <<>>
    /\ LamTop.fn = "handle_large_time_range"
    /\ LamTop.at = "first"
    /\ lam_ret # NoList
    /\ lam_stack' =
          Append(LamSetTop([LamTop EXCEPT !.at = "second",
                                          !.all_paths = @ \o lam_ret.paths]),
                 LamFrame("download_amplify_logs",
                          LamMidTime(LamTop.start, LamTop.end), LamTop.end, 0))
    /\ lam_ret' = NoList
    /\ UNCHANGED <<pipeVars, localVars, orchVars, handlerVars, lam_start, lam_end, temp_files, lam_hist>>

\* all_paths.extend(second_half); return all_paths
HLR_AfterSecond ==
    /\ lam_stack # <<>>
    /\ LamTop.fn = "handle_large_time_range"
    /\ LamTop.at = "second"
    /\ lam_ret # NoList
    /\ lam_stack' = LamPop
    /\ lam_ret' = List(LamTop.all_paths \o lam_ret.paths)
    /\ UNCHANGED <<pipeVars, localVars, orchVars, handlerVars, lam_start, lam_end, temp_files, lam_hist>>

\* ------------------------------------------- lambda_handler, upload_logs_to_s3
NoResult == [set |-> FALSE, statusCode |-> 0, message |-> "", uploadedFiles |-> <<>>]

Result(statusCode, message, uploadedFiles) ==
    [set |-> TRUE, statusCode |-> statusCode, message |-> message,
     uploadedFiles |-> uploadedFiles]

NoLogsMessage == "No logs found for the specified time range"

rmtree_Skipped(dir) == dir

\* finally: shutil.rmtree(temp_dir)
rmtree(dir) == "removed"

\* download_amplify_logs returned to the handler
LamReturned == lam_stack = <<>> /\ lam_ret # NoList /\ lam_result = NoResult

\* `if not log_file_paths:` status 200 and the no-logs message; then the
\* finally clause removes temp_dir
LH_NoLogs ==
    /\ LamReturned
    /\ lam_ret.paths = <<>>
    /\ lam_result' = Result(200, NoLogsMessage, <<>>)
    /\ temp_files' = <<>>
    /\ temp_dir' = rmtree("exists")
    /\ UNCHANGED <<pipeVars, localVars, orchVars, lam_start, lam_end, lam_stack, lam_ret, lam_hist,
                   lam_bucket, lam_event, s3_called>>

\* upload_logs_to_s3 skips a path that does not exist or whose file has size 0
Uploadable(paths) ==
    { paths[k] : k \in { j \in 1..Len(paths) :
                            /\ paths[j] \in DOMAIN temp_files
                            /\ temp_files[paths[j]] # "" } }

InSet(S, p) == p \in S

\* uploaded_files: the keys of the files whose upload went through within
\* its 3 attempts, in the order of log_file_paths
UploadedFiles(paths, up) == SelectSeq(paths, LAMBDA p : InSet(up, p))

\* what s3_client.upload_file can do on one attempt: return, or raise
\* (ClientError and any other exception are handled alike)
UploadOutcomes == {"ok", "error"}

\* the first attempt, counted from 1, that upload_file would let succeed; 0 if
\* it lets none of the max_retries attempts succeed
FirstOk(outcomes) ==
    LET oks == { r \in DOMAIN outcomes : outcomes[r] = "ok" }
    IN  IF oks = {} THEN 0 ELSE 1 + CHOOSE r \in oks : \A q \in oks : r <= q

AttemptsLeft_One(retry) == retry < 1

\* `for retry in range(max_retries)`
AttemptsLeft(retry) == retry < max_retries

\* the retry loop of one file from attempt `retry` on, outcomes[r] being what
\* attempt r does if it is made: the first success ends the loop (break), a
\* failure sleeps if another attempt follows
RECURSIVE UploadFile(_, _, _)
UploadFile(outcomes, retry, slept) ==
    IF ~AttemptsLeft(retry)
    THEN [ok |-> FALSE, attempts |-> retry, slept |-> slept]
    ELSE IF outcomes[retry] = "ok"
    THEN [ok |-> TRUE, attempts |-> retry + 1, slept |-> slept]
    ELSE UploadFile(outcomes, retry + 1,
                    IF RetryAgain(retry) THEN Append(slept, Delay(retry)) ELSE slept)

\* the loop over log_file_paths from position k on: a skipped file leaves no
\* trace, every other file its path, what its attempts did and how it ended
RECURSIVE UploadAll(_, _, _)
UploadAll(paths, outcomes, k) ==
    IF k > Len(paths) THEN <<>>
    ELSE IF paths[k] \notin Uploadable(paths) THEN UploadAll(paths, outcomes, k + 1)
    ELSE <<[path |-> paths[k], first_ok |-> FirstOk(outcomes[paths[k]])]
             @@ UploadFile(outcomes[paths[k]], 0, <<>>)>>
           \o UploadAll(paths, outcomes, k + 1)

\* upload_logs_to_s3(s3_client, log_file_paths, temp_dir, s3_config), the
\* handler's result, then the finally clause removes temp_dir
LH_Upload ==
    /\ LamReturned
    /\ lam_ret.paths # <<>>
    /\ \E outcomes \in [Uploadable(lam_ret.paths) ->
                            [0..(max_retries - 1) -> UploadOutcomes]] :
          LET done == UploadAll(lam_ret.paths, outcomes, 1)
              up == { done[k].path : k \in { j \in 1..Len(done) : done[j].ok } }
          IN  /\ lam_bucket' = lam_bucket \cup up
              /\ lam_result' = Result(200, "", UploadedFiles(lam_ret.paths, up))
              /\ lam_hist' = [lam_hist EXCEPT !.uploads = done]
    /\ temp_files' = <<>>
    /\ temp_dir' = rmtree("exists")
    /\ s3_called' = TRUE
    /\ UNCHANGED <<pipeVars, localVars, orchVars, lam_start, lam_end, lam_stack, lam_ret, lam_event>>

RequiredAppKeys == {"app.region", "app.appId", "app.domainName", "app.appName"}

RequiredTimeKeys == {"timeRange.startTime", "timeRange.endTime"}

RequiredS3Keys_None == {}

RequiredS3Keys == {"s3.bucket"}

\* the keys of the event's "s3" section
S3Keys == {"s3.bucket", "s3.prefix"}

\* the parameters of the expected event format
EventKeys == RequiredAppKeys \cup RequiredTimeKeys \cup S3Keys

\* validate_parameters(app, time_range, s3_config): the text of the
\* ValueError it raises, "" when it returns
validate_parameters(event) ==
    IF event \cap RequiredAppKeys = {} THEN "Missing 'app' configuration in event"
    ELSE IF ~(RequiredAppKeys \subseteq event) THEN "Missing required app parameter"
    ELSE IF event \cap RequiredTimeKeys = {} THEN "Missing 'timeRange' configuration in event"
    ELSE IF ~(RequiredTimeKeys \subseteq event) THEN "Missing required time range parameter"
    ELSE IF event \cap S3Keys = {} THEN "Missing 's3' configuration in event"
    ELSE IF ~(RequiredS3Keys \subseteq event) THEN "Missing required S3 parameter: bucket"
    ELSE ""

BucketMessage == "S3 bucket does not exist or is not accessible"

\* lambda_handler was invoked and has done nothing yet
HandlerEntered ==
    lam_result = NoResult /\ temp_dir = "none" /\ lam_stack = <<>> /\ lam_ret = NoList

\* validate_parameters raises: the outer except returns status 500
LH_Invalid ==
    /\ HandlerEntered
    /\ validate_parameters(lam_event) # ""
    /\ lam_result' = Result(500, validate_parameters(lam_event), <<>>)
    /\ UNCHANGED <<pipeVars, localVars, orchVars, lam_start, lam_end, lam_stack, lam_ret, temp_files,
                   lam_hist, lam_bucket, lam_event, temp_dir, s3_called>>

\* the event is valid: mkdtemp, the dates are parsed, head_bucket fails:
\* status 500, and the finally clause removes temp_dir
LH_BucketMissing ==
    /\ HandlerEntered
    /\ validate_parameters(lam_event) = ""
    /\ s3_called' = TRUE
    /\ temp_dir' = rmtree("exists")
    /\ lam_result' = Result(500, BucketMessage, <<>>)
    /\ UNCHANGED <<pipeVars, localVars, orchVars, lam_start, lam_end, lam_stack, lam_ret, temp_files,
                   lam_hist, lam_bucket, lam_event>>

ErrorMessage == "Error"

\* the event is valid: mkdtemp, then datetime.fromisoformat or boto3.client
\* raises: the finally clause removes temp_dir and the outer except returns
\* status 500
LH_Raised ==
    /\ HandlerEntered
    /\ validate_parameters(lam_event) = ""
    /\ temp_dir' = rmtree("exists")
    /\ lam_result' = Result(500, ErrorMessage, <<>>)
    /\ UNCHANGED <<pipeVars, localVars, orchVars, lam_start, lam_end, lam_stack, lam_ret, temp_files,
                   lam_hist, lam_bucket, lam_event, s3_called>>

\* the event is valid: mkdtemp, the dates are parsed, head_bucket succeeds and
\* download_amplify_logs(app, start_time, end_time, temp_dir) is called
LH_Begin ==
    /\ HandlerEntered
    /\ validate_parameters(lam_event) = ""
    /\ s3_called' = TRUE
    /\ temp_dir' = "exists"
    /\ lam_stack' = <<LamFrame("download_amplify_logs", lam_start, lam_end, 0)>>
    /\ UNCHANGED <<pipeVars, localVars, orchVars, lam_start, lam_end, lam_ret, temp_files,
                   lam_hist, lam_result, lam_bucket, lam_event>>

\* ------------------------ orchestration Lambda: generate_time_ranges
\* datetime.isoformat(): the microseconds are printed when they are not 0, so
\* the text names the same instant
IsoFormat(t) == [s |-> t.s, us |-> t.us]

OrchContinue_NotEqual(cur, end_time) == cur # end_time

\* while current_start < end_date
OrchContinue(cur, end_time) == TLt(cur, end_time)

\* chunk_end = current_start + timedelta(days=chunk_size_days), cut to end_date
OrchChunkEnd(cur, days, end_time) ==
    LET chunk_end == TAdd(cur, Days(days))
    IN  IF TLt(end_time, chunk_end) THEN end_time ELSE chunk_end

\* one iteration of the while loop
ORCH_GenStep ==
    /\ orch_pc = "gen"
    /\ OrchContinue(orch_current, orch_end)
    /\ Len(orch_ranges) < MaxRanges
    /\ LET chunk_end == OrchChunkEnd(orch_current, orch_chunk, orch_end)
       IN  /\ orch_ranges' = Append(orch_ranges,
                                    [startTime |-> IsoFormat(orch_current),
                                     endTime |-> IsoFormat(chunk_end)])
           /\ orch_current' = chunk_end
    /\ UNCHANGED <<pipeVars, localVars, lamVars, orch_start, orch_end, orch_chunk, orch_pc>>

\* the loop condition fails: return time_ranges
ORCH_GenReturn ==
    /\ orch_pc = "gen"
    /\ ~OrchContinue(orch_current, orch_end)
    /\ orch_pc' = "done"
    /\ UNCHANGED <<pipeVars, localVars, lamVars, orch_start, orch_end, orch_chunk, orch_current,
                   orch_ranges>>

\* ------------------------------- pipeline Lambda: the crawler trigger
\* event.get('statusCode'): None when the key is absent
NoStatus == [set |-> FALSE, code |-> 0]

Status(code) == [set |-> TRUE, code |-> code]

\* the event: statusCode, the kind of its body ("absent", "string", "dict")
\* and, for a dict body, the number of uploadedFiles, -1 when the key is absent
Event(status, body, uploaded) == [statusCode |-> status, body |-> body, uploaded |-> uploaded]

Events ==
    { Event(st, b, -1) : st \in {NoStatus, Status(200), Status(500)},
                         b \in {"absent", "string", "dict"} }
      \cup { Event(st, "dict", n) : st \in {NoStatus, Status(200), Status(500)},
                                    n \in 0..MaxUploaded }

\* status_code is not None and status_code != 200
PreviousFailed(status) == status.set /\ status.code # 200

\* uploaded_files after lines 45-47: [] unless the body is a dict that has the key
UploadedCount(event) ==
    IF event.body = "dict" /\ event.uploaded >= 0 THEN event.uploaded ELSE 0

IsRunning_Never(state) == FALSE

\* crawler_state == 'RUNNING'
IsRunning(state) == state = "RUNNING"

PipeReturn(code) == pipe_pc' = "done" /\ pipe_result' = code

\* CRAWLER_NAME is not set: status 500
PL_NoName ==
    /\ pipe_pc = "entry"
    /\ pipe_name = ""
    /\ PipeReturn(500)
    /\ UNCHANGED <<localVars, lamVars, orchVars, pipe_name, pipe_event, pipe_state, pipe_started>>

\* the previous step failed: its status code is handed on
PL_PreviousFailed ==
    /\ pipe_pc = "entry"
    /\ pipe_name # ""
    /\ PreviousFailed(pipe_event.statusCode)
    /\ PipeReturn(pipe_event.statusCode.code)
    /\ UNCHANGED <<localVars, lamVars, orchVars, pipe_name, pipe_event, pipe_state, pipe_started>>

\* `if not uploaded_files:` status 200, the crawler is skipped
PL_NoFiles ==
    /\ pipe_pc = "entry"
    /\ pipe_name # ""
    /\ ~PreviousFailed(pipe_event.statusCode)
    /\ UploadedCount(pipe_event) = 0
    /\ PipeReturn(200)
    /\ UNCHANGED <<localVars, lamVars, orchVars, pipe_name, pipe_event, pipe_state, pipe_started>>

\* the three checks pass: the Glue client is created
PL_Proceed ==
    /\ pipe_pc = "entry"
    /\ pipe_name # ""
    /\ ~PreviousFailed(pipe_event.statusCode)
    /\ UploadedCount(pipe_event) # 0
    /\ pipe_pc' = "s3check"
    /\ UNCHANGED <<localVars, lamVars, orchVars, pipe_name, pipe_event, pipe_state, pipe_started,
                   pipe_result>>

\* the check of the S3 path: list_objects_v2 shows no object (status 200, the
\* crawler is skipped), shows one, or the check raises and is passed over
PL_S3Check ==
    /\ pipe_pc = "s3check"
    /\ \E listing \in {"contents", "empty", "raised"} :
          IF listing = "empty"
          THEN PipeReturn(200)
          ELSE pipe_pc' = "get" /\ UNCHANGED pipe_result
    /\ UNCHANGED <<localVars, lamVars, orchVars, pipe_name, pipe_event, pipe_state, pipe_started>>

\* glue_client.get_crawler: EntityNotFoundException (status 404), another
\* exception (status 500 from the outer except), or the crawler's state
PL_GetCrawler ==
    /\ pipe_pc = "get"
    /\ \E answer \in {"not_found", "raised", "READY", "RUNNING", "STOPPING"} :
          CASE answer = "not_found" -> PipeReturn(404) /\ UNCHANGED pipe_state
            [] answer = "raised" -> PipeReturn(500) /\ UNCHANGED pipe_state
            [] OTHER -> pipe_pc' = "found" /\ pipe_state' = answer /\ UNCHANGED pipe_result
    /\ UNCHANGED <<localVars, lamVars, orchVars, pipe_name, pipe_event, pipe_started>>

\* the crawler is already running: status 200, nothing is started
PL_AlreadyRunning ==
    /\ pipe_pc = "found"
    /\ IsRunning(pipe_state)
    /\ PipeReturn(200)
    /\ UNCHANGED <<localVars, lamVars, orchVars, pipe_name, pipe_event, pipe_state, pipe_started>>

\* glue_client.start_crawler: status 200, or 500 when the call raises
PL_Start ==
    /\ pipe_pc = "found"
    /\ ~IsRunning(pipe_state)
    /\ pipe_started' = pipe_started + 1
    /\ \E ok \in BOOLEAN : PipeReturn(IF ok THEN 200 ELSE 500)
    /\ UNCHANGED <<localVars, lamVars, orchVars, pipe_name, pipe_event, pipe_state>>

\* the pipeline Lambda is not running
PipeIdle ==
    /\ pipe_name = ""
    /\ pipe_event = Event(NoStatus, "absent", -1)
    /\ pipe_pc = "idle"
    /\ pipe_state = "unknown"
    /\ pipe_started = 0
    /\ pipe_result = 0

\* ------------------------------------------------------------ specifications
\* AmplifyLogDownloader.__init__ and the entry of download_logs
InitRun ==
    /\ pc = "gen"
    /\ current_start = StartOfDay(start_date)
    /\ ranges = <<>>
    /\ i = 0
    /\ stack = <<>>
    /\ ret = NoRet
    /\ stats = [total_chunks |-> 0, successful_chunks |-> 0, failed_chunks |-> 0,
                empty_logs_chunks |-> 0, upload_failures |-> 0, failed_ranges |-> <<>>]
    /\ app_stats = NoAppStats
    /\ files = {}
    /\ s3 = {}
    /\ hist = NoHistory

\* the Lambda is not running
LambdaIdle ==
    /\ lam_start = Time(0, 0)
    /\ lam_end = Time(0, 0)
    /\ lam_stack = <<>>
    /\ lam_ret = NoList
    /\ temp_files = <<>>
    /\ lam_hist = NoLamHistory
    /\ lam_result = NoResult
    /\ lam_bucket = {}
    /\ lam_event = {}
    /\ temp_dir = "none"
    /\ s3_called = FALSE

\* the orchestration Lambda is not running
OrchIdle ==
    /\ orch_start = Time(0, 0)
    /\ orch_end = Time(0, 0)
    /\ orch_chunk = 1
    /\ orch_pc = "idle"
    /\ orch_current = Time(0, 0)
    /\ orch_ranges = <<>>

\* generate_time_ranges(start_date, end_date, chunk_size_days) is entered
OrchCall(from, to, days) ==
    /\ orch_start = from
    /\ orch_end = to
    /\ orch_chunk = days
    /\ orch_pc = "gen"
    /\ orch_current = from
    /\ orch_ranges = <<>>

\* one run of download_logs of the local CLI
Init ==
    /\ start_date \in 0..MaxRunDay
    /\ end_date \in 0..MaxRunDay
    /\ chunk_size_days \in 1..MaxChunkDays
    /\ delete_after_upload \in BOOLEAN
    /\ remote \in {"any", "always_split"}
    /\ InitRun
    /\ PipeIdle
    /\ rerun = Untracked
    /\ LambdaIdle
    /\ OrchIdle

Next ==
    \/ GenStep
    \/ GenReturn
    \/ DL_Start
    \/ PTR_DepthLimit
    \/ PTR_Reduce
    \/ PTR_AfterFirst
    \/ PTR_AfterSecond
    \/ PTR_Empty
    \/ PTR_NoLogs
    \/ PTR_Persist
    \/ DL_Account
    \/ DL_Return

Spec == Init /\ [][Next]_vars

\* two download_logs calls on one downloader, over the same dates, against a
\* remote that answers a repeated request as it answered it the first time
InitRerun ==
    /\ start_date \in 0..MaxRerunDay
    /\ end_date \in 0..MaxRerunDay
    /\ chunk_size_days \in 1..MaxChunkDays
    /\ delete_after_upload \in BOOLEAN
    /\ remote \in {"any", "always_split"}
    /\ InitRun
    /\ PipeIdle
    /\ rerun = FirstRun
    /\ LambdaIdle
    /\ OrchIdle

NextRerun == Next \/ DL_Again

SpecRerun == InitRerun /\ [][NextRerun]_vars

\* 2024-01-01 .. 2024-01-31 in chunks of 14 days, day 0 being 2024-01-01
JanuaryBy14 == <<0, 30, 14>>

GenInputs ==
    ((0..MaxDay) \X (0..MaxDay) \X ((0 - MaxNegChunk)..MaxChunkDays))
        \cup {JanuaryBy14}

\* generate_time_ranges called on any dates and any chunk size
InitGen ==
    /\ \E input \in GenInputs :
          /\ start_date = input[1]
          /\ end_date = input[2]
          /\ chunk_size_days = input[3]
    /\ delete_after_upload = FALSE
    /\ remote = "any"
    /\ InitRun
    /\ PipeIdle
    /\ rerun = Untracked
    /\ LambdaIdle
    /\ OrchIdle

NextGen == GenStep \/ GenReturn

SpecGen == InitGen /\ [][NextGen]_vars

\* download_amplify_logs(app, start_time, end_time, temp_dir) called by the
\* handler on the event's time range
InitLambda ==
    /\ start_date = 0
    /\ end_date = 0
    /\ chunk_size_days = 1
    /\ delete_after_upload = FALSE
    /\ remote = "any"
    /\ InitRun
    /\ PipeIdle
    /\ rerun = Untracked
    /\ lam_start \in { Time(0, u) : u \in 0..MaxStartMicro }
    /\ lam_end \in { EndOfDay(d) : d \in 0..MaxLambdaDay }
                     \cup { StartOfDay(d + 1) : d \in 0..MaxLambdaDay }
    /\ OrchIdle
    /\ lam_stack = <<LamFrame("download_amplify_logs", lam_start, lam_end, 0)>>
    /\ lam_ret = NoList
    /\ temp_files = <<>>
    /\ lam_hist = NoLamHistory
    /\ lam_result = NoResult
    /\ lam_bucket = {}
    /\ lam_event = EventKeys
    /\ temp_dir = "exists"
    /\ s3_called = TRUE

NextLambda ==
    \/ DAL_SetupFailed
    \/ DAL_Downloaded
    \/ DAL_HttpError
    \/ DAL_NoLogUrl
    \/ DAL_Subdivide
    \/ DAL_BadRequest
    \/ DAL_NotFound
    \/ DAL_Exception
    \/ DAL_ReturnSubdivided
    \/ HLR_Enter
    \/ HLR_AfterFirst
    \/ HLR_AfterSecond
    \/ LH_NoLogs
    \/ LH_Upload

SpecLambda == InitLambda /\ [][NextLambda]_vars

\* download_amplify_logs called on an event whose time range is a few
\* seconds long
InitShort ==
    /\ start_date = 0
    /\ end_date = 0
    /\ chunk_size_days = 1
    /\ delete_after_upload = FALSE
    /\ remote = "any"
    /\ InitRun
    /\ PipeIdle
    /\ rerun = Untracked
    /\ lam_start = Time(0, 0)
    /\ lam_end \in { Seconds(n) : n \in 1..MaxShortSeconds }
    /\ OrchIdle
    /\ lam_stack = <<LamFrame("download_amplify_logs", lam_start, lam_end, 0)>>
    /\ lam_ret = NoList
    /\ temp_files = <<>>
    /\ lam_hist = NoLamHistory
    /\ lam_result = NoResult
    /\ lam_bucket = {}
    /\ lam_event = EventKeys
    /\ temp_dir = "exists"
    /\ s3_called = TRUE

SpecShort == InitShort /\ [][NextLambda]_vars

\* the pipeline Lambda invoked with any event, CRAWLER_NAME set or not
InitPipeline ==
    /\ start_date = 0
    /\ end_date = 0
    /\ chunk_size_days = 1
    /\ delete_after_upload = FALSE
    /\ remote = "any"
    /\ InitRun
    /\ rerun = Untracked
    /\ LambdaIdle
    /\ OrchIdle
    /\ pipe_name \in {"", "crawler"}
    /\ pipe_event \in Events
    /\ pipe_pc = "entry"
    /\ pipe_state = "unknown"
    /\ pipe_started = 0
    /\ pipe_result = 0

NextPipeline ==
    \/ PL_NoName
    \/ PL_PreviousFailed
    \/ PL_NoFiles
    \/ PL_Proceed
    \/ PL_S3Check
    \/ PL_GetCrawler
    \/ PL_AlreadyRunning
    \/ PL_Start

SpecPipeline == InitPipeline /\ [][NextPipeline]_vars

\* lambda_handler invoked with an event that carries any of the parameters;
\* its time range, where it has one, is the first day
InitHandler ==
    /\ start_date = 0
    /\ end_date = 0
    /\ chunk_size_days = 1
    /\ delete_after_upload = FALSE
    /\ remote = "any"
    /\ InitRun
    /\ PipeIdle
    /\ rerun = Untracked
    /\ lam_start = StartOfDay(0)
    /\ lam_end = EndOfDay(0)
    /\ OrchIdle
    /\ lam_stack = <<>>
    /\ lam_ret = NoList
    /\ temp_files = <<>>
    /\ lam_hist = NoLamHistory
    /\ lam_result = NoResult
    /\ lam_bucket = {}
    /\ lam_event \in SUBSET EventKeys
    /\ temp_dir = "none"
    /\ s3_called = FALSE

NextHandler ==
    \/ LH_Invalid
    \/ LH_BucketMissing
    \/ LH_Raised
    \/ LH_Begin
    \/ NextLambda

SpecHandler == InitHandler /\ [][NextHandler]_vars

\* the orchestration Lambda's generate_time_ranges called on any two instants
\* (midnights, or a midnight and the microsecond after one) and any chunk size
InitOrch ==
    /\ start_date = 0
    /\ end_date = 0
    /\ chunk_size_days = 1
    /\ delete_after_upload = FALSE
    /\ remote = "any"
    /\ InitRun
    /\ PipeIdle
    /\ rerun = Untracked
    /\ LambdaIdle
    /\ \E d1 \in 0..MaxDay, d2 \in 0..MaxDay, u \in 0..MaxStartMicro,
          days \in (0 - MaxNegChunk)..MaxChunkDays :
          OrchCall(TAdd(StartOfDay(d1), Time(0, u)), StartOfDay(d2), days)

NextOrch == ORCH_GenStep \/ ORCH_GenReturn

SpecOrch == InitOrch /\ [][NextOrch]_vars

\* both generators on the same interval and chunk size: the orchestration
\* Lambda computes its ranges, then the local CLI runs download_logs (the two
\* programs share no state, so their order does not matter)
InitBoth ==
    /\ start_date \in 0..MaxRunDay
    /\ end_date \in 0..MaxRunDay
    /\ chunk_size_days \in 1..MaxChunkDays
    /\ delete_after_upload \in BOOLEAN
    /\ remote \in {"any", "always_split"}
    /\ InitRun
    /\ PipeIdle
    /\ rerun = Untracked
    /\ LambdaIdle
    /\ OrchCall(StartOfDay(start_date), StartOfDay(end_date), chunk_size_days)

NextBoth ==
    \/ ORCH_GenStep
    \/ ORCH_GenReturn
    \/ (orch_pc = "done" /\ Next)

SpecBoth == InitBoth /\ [][NextBoth]_vars

\* =================================================================== claims
\* the ranges a finished or running generate_time_ranges has built
RangeCount == Len(ranges)

SplitFrames == { k \in 1..Len(stack) : stack[k].at \in {"first", "second"} }

\* process_time_range returned for the chunk and download_logs has not counted it yet
ChunkReturned == pc = "loop" /\ stack = <<>> /\ ret # NoRet

\* the deepest level at which the API was called for the current chunk
DeepestCalled ==
    CHOOSE d \in Depths :
        /\ hist.calls[d] > 0 \/ d = 0
        /\ \A e \in Depths : e > d => hist.calls[e] = 0

LeafAttempts == hist.calls[DeepestCalled]

FailedRanges == { stats.failed_ranges[k] : k \in 1..Len(stats.failed_ranges) }

\* C1: for start date <= end date and chunkDays >= 1 the ranges of
\* generate_time_ranges are well formed, in chronological order, pairwise
\* disjoint and adjacent to the second: the first starts at 00:00:00 of the
\* start date, each next range starts exactly one second after the previous
\* one ends, and the last ends at 23:59:59 of the end date.
C1_PartitionCoverage ==
    (start_date <= end_date /\ chunk_size_days >= 1) =>
        /\ \A k \in 1..RangeCount :
              /\ TLe(ranges[k][1], ranges[k][2])
              /\ ranges[k][1].us = 0 /\ ranges[k][2].us = 0
        /\ \A k \in 1..(RangeCount - 1) :
              ranges[k + 1][1] = TAdd(ranges[k][2], Seconds(1))
        /\ \A j, k \in 1..RangeCount : j < k => TLt(ranges[j][2], ranges[k][1])
        /\ RangeCount >= 1 => ranges[1][1] = StartOfDay(start_date)
        /\ pc # "gen" => /\ RangeCount >= 1
                         /\ ranges[RangeCount][2] = EndOfDay(end_date)

C1_Witness ==
    /\ pc = "loop"
    /\ start_date < end_date
    /\ chunk_size_days = 2
    /\ RangeCount >= 2
    /\ TSub(ranges[RangeCount][2], ranges[RangeCount][1]) = Time(DaySeconds - 1, 0)

\* C2 as stated: the depth bound is 3. No API call is made by an invocation
\* deeper than 3, every invocation of depth <= 3 calls the API, and a chunk
\* whose every API call signalled needs-split ends in failure after exactly
\* 2^3 = 8 API calls at the deepest level reached.
C2_DepthBoundIsThree ==
    /\ \A d \in Depths : d > 3 => hist.calls[d] = 0
    /\ \A d \in Depths : d <= 3 => hist.calls[d] = hist.invocations[d]
    /\ (ChunkReturned /\ hist.allSplit) => (~ret.success /\ LeafAttempts = 2 ^ 3)

\* C2 amended: the depth bound is 2. No API call is made by an invocation
\* deeper than 2 (it returns failure at once), every invocation of depth <= 2
\* calls the API, and a chunk whose every API call signalled needs-split ends
\* in failure after exactly 2^2 = 4 API calls at the deepest level reached
\* (1 + 2 + 4 calls in all) and 8 invocations of depth 3 that call nothing.
C2_DepthBoundIsTwo ==
    /\ \A d \in Depths : d > DepthLimit => hist.calls[d] = 0
    /\ \A d \in Depths : d <= DepthLimit => hist.calls[d] = hist.invocations[d]
    /\ \A k \in 1..Len(stack) : stack[k].depth <= DepthLimit + 1
    /\ (hist.last.outcome = "depth") =>
          (hist.last.attempts = 0 /\ ~hist.last.success /\ hist.last.depth > DepthLimit)
    /\ (ChunkReturned /\ hist.allSplit) =>
          /\ ~ret.success
          /\ DeepestCalled = DepthLimit
          /\ LeafAttempts = 2 ^ DepthLimit
          /\ \A d \in 0..DepthLimit : hist.calls[d] = 2 ^ d
          /\ hist.invocations[DepthLimit + 1] = 2 ^ (DepthLimit + 1)

C2_Witness ==
    /\ ChunkReturned
    /\ hist.allSplit
    /\ hist.calls[DepthLimit] = 4
    /\ hist.invocations[DepthLimit + 1] = 8

\* C4: bisecting a range gives two adjacent halves that do not overlap: the
\* first is [start, mid], the second begins one time unit after mid and ends
\* at end, so no instant is requested from the API in both halves.
C4_BisectionDisjoint ==
    \A k \in SplitFrames :
        LET first == FirstHalf(stack[k].start, stack[k].end)
            second == SecondHalf(stack[k].start, stack[k].end)
        IN  /\ first[1] = stack[k].start
            /\ second[2] = stack[k].end
            /\ TLt(first[2], second[1])
            /\ FormatSeconds(first[2]) < FormatSeconds(second[1])

\* C5: when the first half of a split chunk succeeded and the second half
\* failed, the chunk is counted successful and the failed half's range is in
\* the failed_ranges of the report.
C5_FailedHalfReported ==
    pc = "done" => \A r \in hist.partial : r \in FailedRanges

\* C6: a failed upload of a fetched, non-empty chunk adds one to
\* upload_failures, and the chunk is still counted successful: it is added to
\* successful_chunks and not to failed_chunks or failed_ranges.
C6_UploadFailureStillSuccess ==
    [][ /\ (hist'.last # hist.last /\ hist'.last.outcome = "upload_failed")
            => stats'.upload_failures = stats.upload_failures + 1
        /\ (ChunkReturned /\ hist.last.depth = 0 /\ hist.last.outcome = "upload_failed")
            => /\ stats'.successful_chunks = stats.successful_chunks + 1
               /\ stats'.failed_chunks = stats.failed_chunks
               /\ stats'.failed_ranges = stats.failed_ranges ]_vars

\* C7: in the local CLI a range whose API call failed transiently is reported
\* failed only after MAX_RETRIES = 3 calls for that same range.
C7_TransientRetriedLocal ==
    hist.last.outcome = "none" => hist.last.attempts = max_retries

\* C9: a range is bisected if and only if its API call failed with the
\* range-too-large text: every split range got that signal, and no range that
\* got the signal ended as a failure, an empty result or a stored payload.
C9_SplitOnlyOnSignal ==
    /\ \A k \in SplitFrames : IsRangeTooLarge(stack[k].resp)
    /\ hist.last.outcome \in {"none", "empty", "stored", "upload_failed", "save_failed"}
          => ~hist.last.signal
    /\ hist.last.outcome = "split" => hist.last.signal

\* ------------------------------------------------------ Lambda downloader
DownloadFrames ==
    { k \in 1..Len(lam_stack) : lam_stack[k].fn = "download_amplify_logs" }

\* the subdivisions in progress, one inside the other
Subdivisions ==
    { k \in 1..Len(lam_stack) :
        /\ lam_stack[k].fn = "handle_large_time_range"
        /\ lam_stack[k].at \in {"first", "second"} }

Nesting == Cardinality(Subdivisions)

\* C3: in the Lambda downloader the subdivisions of one requested range are
\* never nested more than max_depth = 3 deep, whatever the API answers.
C3_SubdivisionBounded == Nesting <= max_depth

\* C8: a range of the Lambda downloader whose attempts all failed transiently
\* is tried exactly max_retries = 3 times and then gives [], and is never
\* subdivided: a call in its retry loop has made as many attempts as retry
\* says, fewer than 3; a call that gave up on transient failures made
\* exactly 3 and returned []; only a call that got the range-too-large text
\* subdivided.
C8_TransientRetryBound ==
    /\ \A k \in DownloadFrames :
          /\ lam_stack[k].at = "try" =>
                /\ lam_stack[k].retry < max_retries
                /\ lam_stack[k].attempts = lam_stack[k].retry
          /\ lam_stack[k].at = "subdivided" => lam_stack[k].signal
    /\ lam_hist.last.outcome = "exhausted" =>
          /\ lam_hist.last.attempts = max_retries
          /\ lam_hist.last.paths = <<>>

C8_Witness ==
    /\ lam_stack = <<>>
    /\ lam_ret = List(<<>>)
    /\ lam_hist.last.outcome = "exhausted"
    /\ lam_hist.calls = max_retries

\* C10: the split budget and the retry budget of the Lambda downloader are
\* independent: a call that got the range-too-large text has subdivided at
\* once, on whichever attempt it came; every call, a sub-range's included,
\* counts only its own attempts against its 3 retries (it starts at retry 0);
\* every subdivision starts at the same depth, however many transient
\* failures its range had before.
C10_BudgetsIndependent ==
    /\ \A k \in DownloadFrames :
          /\ lam_stack[k].signal => lam_stack[k].at = "subdivided"
          /\ lam_stack[k].at = "try" => lam_stack[k].retry = lam_stack[k].attempts
          /\ lam_stack[k].attempts = 0 => lam_stack[k].retry = 0
    /\ \A k \in 1..Len(lam_stack) :
          lam_stack[k].fn = "handle_large_time_range" =>
              /\ k > 1
              /\ lam_stack[k - 1].at = "subdivided"
              /\ lam_stack[k].depth = SplitDepth

C10_Witness ==
    /\ Len(lam_stack) = 3
    /\ lam_stack[1].at = "subdivided"
    /\ lam_stack[1].attempts = max_retries
    /\ lam_stack[3].fn = "download_amplify_logs"
    /\ lam_stack[3].attempts = max_retries - 1
    /\ lam_stack[3].retry = max_retries - 1

\* ------------------------------------------------------- local CLI, part 2
\* the process_time_range invocation that has just returned (in this step)
JustReturned(outcome) == hist'.last # hist.last /\ hist'.last.outcome = outcome

\* the chunk's own process_time_range invocation returned with this outcome
\* and download_logs is about to count it
ChunkEndedAs(outcome) ==
    ChunkReturned /\ hist.last.depth = 0 /\ hist.last.outcome = outcome

Stored == files \cup s3

\* C11: in the local CLI a fetch that returns the empty string never triggers
\* a persist: the step creates no local file, uploads nothing and counts no
\* upload failure (files and uploads only change when a non-empty payload is
\* persisted); download_logs counts such a chunk successful and adds exactly
\* one to empty_logs_chunks, and nothing to failed_chunks or failed_ranges.
C11_EmptyNeverPersisted ==
    [][ /\ JustReturned("empty") =>
              /\ files' = files /\ s3' = s3
              /\ stats'.upload_failures = stats.upload_failures
              /\ ret' = Ret(TRUE, TRUE)
        /\ (files' # files \/ s3' # s3 \/ stats'.upload_failures # stats.upload_failures)
              => hist'.last.outcome \in {"stored", "upload_failed"}
        /\ ChunkEndedAs("empty") =>
              /\ stats'.successful_chunks = stats.successful_chunks + 1
              /\ stats'.empty_logs_chunks = stats.empty_logs_chunks + 1
              /\ stats'.failed_chunks = stats.failed_chunks
              /\ stats'.failed_ranges = stats.failed_ranges
              /\ app_stats'.successful_chunks = app_stats.successful_chunks + 1
              /\ app_stats'.empty_logs_chunks = app_stats.empty_logs_chunks + 1
              /\ app_stats'.failed_chunks = app_stats.failed_chunks
              /\ files' = files /\ s3' = s3 ]_vars

C11_Witness ==
    /\ pc = "loop" /\ stack = <<>> /\ ret = NoRet
    /\ i = 1
    /\ hist.last.outcome = "empty" /\ hist.last.depth = 0
    /\ hist.last.start = ranges[1][1] /\ hist.last.end = ranges[1][2]
    /\ stats.successful_chunks = 1 /\ stats.empty_logs_chunks = 1
    /\ files = {} /\ s3 = {}

\* ------------------------------------------------------- Lambda, part 2
\* lambda_handler returns in this step
HandlerReturns == lam_result = NoResult /\ lam_result' # NoResult

\* the files of temp_dir that stand for "no log entries in the window": the
\* marker written for a response without logUrl, and an empty downloaded body
NoEntryFiles == { p \in DOMAIN temp_files : temp_files[p] \in {"", NoLogsMarker} }

InSeq(seq, p) == \E k \in 1..Len(seq) : seq[k] = p

\* C12: in the Lambda downloader a valid "no log entries in the window"
\* response (no logUrl in the response, or a log URL whose body is empty)
\* never creates a storage artifact: no object is uploaded for its range, and
\* when the whole event range was such a response uploadedFiles is empty.
C12_NoArtifactForEmptyWindow ==
    [][ HandlerReturns =>
          /\ \A p \in NoEntryFiles :
                /\ p \notin lam_bucket'
                /\ ~InSeq(lam_result'.uploadedFiles, p)
          /\ (NoEntryFiles = DOMAIN temp_files) => lam_result'.uploadedFiles = <<>> ]_vars

\* the part of C12 that the code keeps: an empty downloaded body is never uploaded
EmptyBodyNotUploaded ==
    [][ HandlerReturns =>
          \A p \in DOMAIN temp_files :
              temp_files[p] = "" =>
                  (p \notin lam_bucket' /\ ~InSeq(lam_result'.uploadedFiles, p)) ]_vars

\* the fetch of the event's own range ended this way
EventRangeEnded(outcomes) ==
    /\ lam_hist.last.start = lam_start
    /\ lam_hist.last.end = lam_end
    /\ lam_hist.last.outcome \in outcomes

\* C15: in the Lambda downloader a range whose fetch ended in terminal
\* failure (retries exhausted, resource not found) is reported as failed in
\* the handler's result: the result is not the status-200 "no logs found"
\* answer.
C15_TerminalFailureReported ==
    (lam_result # NoResult /\ EventRangeEnded({"exhausted", "not_found"})) =>
        /\ lam_result.statusCode # 200
        /\ lam_result.message # NoLogsMessage

\* ------------------------------------------------------- local CLI, part 3
\* the innermost process_time_range invocation, after this step
NewTop == stack'[Len(stack')]

\* the innermost invocation waits at this call site and its callee has returned
HalfReturned(site) == stack # <<>> /\ Top.at = site /\ ret # NoRet

\* C13: when process_time_range gets the needs-split signal for a range it
\* calls itself on the first half at depth + 1; when that call returns,
\* whether it succeeded or failed, it calls itself on the second half at
\* depth + 1; it returns only after the second call, and then reports success
\* if and only if at least one of the two halves reported success.
C13_BothHalvesEitherSucceeds ==
    [][ /\ (stack # <<>> /\ Top.at = "entry" /\ Len(stack') > Len(stack)) =>
              /\ IsReduceRange(get_amplify_logs(stack'[Len(stack)].resp))
              /\ stack'[Len(stack)].at = "first"
              /\ NewTop = Frame(Top.start, MidTime(Top.start, Top.end), Top.depth + 1)
        /\ HalfReturned("first") =>
              /\ Len(stack') = Len(stack) + 1
              /\ stack'[Len(stack)].at = "second"
              /\ stack'[Len(stack)].success1 = ret.success
              /\ NewTop = Frame(MidTime(Top.start, Top.end), Top.end, Top.depth + 1)
        /\ HalfReturned("second") =>
              /\ stack' = Pop
              /\ ret'.set
              /\ ret'.success = (Top.success1 \/ ret.success)
        /\ (stack # <<>> /\ Top.at \in {"first", "second"} /\ Len(stack') < Len(stack))
              => HalfReturned("second") ]_vars

\* the first half failed, the second half was still attempted and succeeded
C13_Witness ==
    /\ Len(stack) = 1
    /\ HalfReturned("second")
    /\ ~Top.success1
    /\ ret.success

\* C14: no failure of the API call, the payload download, the local save or
\* the upload raises out of the chunk loop of download_logs: the chunk in
\* progress is always the next chunk of generate_time_ranges, it is processed
\* by one top-level process_time_range call and counted once as successful or
\* failed, download_logs can always take a step until it has returned, and it
\* returns only when every chunk has been counted, also when all failed.
C14_ChunkLoopNeverAborts ==
    /\ i <= Len(ranges)
    /\ pc = "gen" => (i = 0 /\ stack = <<>>)
    /\ pc # "gen" =>
          /\ stats.total_chunks = Len(ranges)
          /\ stats.successful_chunks + stats.failed_chunks = i
          /\ app_stats.successful_chunks + app_stats.failed_chunks = i
          /\ Len(stats.failed_ranges) = stats.failed_chunks
    /\ stack # <<>> =>
          /\ pc = "loop" /\ i < Len(ranges)
          /\ stack[1].start = ranges[i + 1][1]
          /\ stack[1].end = ranges[i + 1][2]
          /\ stack[1].depth = 0
    /\ ChunkReturned => (i < Len(ranges) /\ hist.invocations[0] = 1)
    /\ pc = "done" => (i = Len(ranges) /\ stack = <<>> /\ ret = NoRet)
    /\ pc # "done" => ENABLED Next

\* the report of a run of two chunks that both failed, one on its upload
C14_Witness ==
    /\ pc = "done"
    /\ Len(ranges) = 2
    /\ stats.failed_chunks = 2
    /\ stats.upload_failures = 1
    /\ Len(stats.failed_ranges) = 2

\* a chunk that was split once, both of whose halves were fetched with a
\* non-empty payload and uploaded, when its second half has just returned
SplitOnceBothStored ==
    /\ Len(stack) = 1
    /\ HalfReturned("second")
    /\ hist.calls[0] = 1 /\ hist.calls[1] = 2 /\ hist.calls[2] = 0
    /\ Top.success1 /\ ~Top.empty1
    /\ ret.success /\ ~ret.is_empty

\* C16: each leaf range fetched with a non-empty payload is persisted once,
\* under the key derived from that leaf's end timestamp: its one persist step
\* (save_logs_locally, then upload_to_s3) adds exactly that key, which was not
\* stored before, locally and, when the upload goes through, to S3; no other
\* step stores anything; a chunk that signalled range-too-large once and then succeeded on
\* both halves has stored exactly two artifacts, under the keys of the
\* midpoint and of the chunk's end, is reported successful, and adds nothing
\* to failed_ranges.
C16_LeafPersistedOnceByEnd ==
    [][ /\ (JustReturned("stored") \/ JustReturned("upload_failed")) =>
              LET key == StorageKey(hist'.last.end)
              IN  /\ key \notin Stored
                  /\ Stored' = Stored \cup {key}
                  /\ JustReturned("stored") => s3' = s3 \cup {key}
                  /\ JustReturned("upload_failed") => (s3' = s3 /\ files' = files \cup {key})
        /\ (files' # files \/ s3' # s3) =>
              (JustReturned("stored") \/ JustReturned("upload_failed"))
        /\ SplitOnceBothStored =>
              LET k1 == StorageKey(MidTime(Top.start, Top.end))
                  k2 == StorageKey(Top.end)
              IN  /\ k1 # k2
                  /\ {k1, k2} \subseteq s3
                  /\ i = 0 => s3 = {k1, k2}
                  /\ ret'.success
        /\ (ChunkReturned /\ ret.success) =>
              /\ stats'.failed_ranges = stats.failed_ranges
              /\ stats'.failed_chunks = stats.failed_chunks
              /\ stats'.successful_chunks = stats.successful_chunks + 1 ]_vars

\* the first chunk was split once, both halves were stored, and it is counted
C16_Witness ==
    /\ pc = "loop" /\ stack = <<>> /\ ret = NoRet
    /\ i = 1
    /\ hist.last.outcome = "split" /\ hist.last.depth = 0
    /\ hist.calls[0] = 1 /\ hist.calls[1] = 2 /\ hist.calls[2] = 0
    /\ Cardinality(s3) = 2
    /\ stats.successful_chunks = 1
    /\ stats.failed_ranges = <<>>

\* failed_ranges lists chunks of generate_time_ranges already processed, in
\* their order and without repetition
InOrderOnce(failed) ==
    /\ \A k \in 1..Len(failed) : \E j \in 1..i : ranges[j] = failed[k]
    /\ \A j, k \in 1..Len(failed) : j < k => TLt(failed[j][1], failed[k][1])

\* C17: failed_ranges holds exactly the top-level chunks whose
\* process_time_range outcome was failure: counting a failed chunk appends
\* that chunk's own (start, end) to the list, counting a successful or empty
\* chunk leaves the list as it is, no other step changes it, and so the list
\* names failed chunks only, each once and in processing order.
C17_FailedRangesExact ==
    [][ /\ ChunkReturned =>
              /\ i' = i + 1
              /\ stats'.failed_ranges =
                    IF ret.success THEN stats.failed_ranges
                    ELSE Append(stats.failed_ranges, ranges[i + 1])
              /\ app_stats'.failed_ranges =
                    IF ret.success THEN app_stats.failed_ranges
                    ELSE Append(app_stats.failed_ranges, ranges[i + 1])
        /\ ~ChunkReturned =>
              /\ stats'.failed_ranges = stats.failed_ranges
              /\ app_stats'.failed_ranges = app_stats.failed_ranges
        /\ InOrderOnce(stats.failed_ranges)'
        /\ app_stats'.failed_ranges = stats'.failed_ranges
        /\ Len(stats'.failed_ranges) = stats'.failed_chunks ]_vars

\* the report of a run whose first chunk failed and whose second was empty
C17_Witness ==
    /\ pc = "done"
    /\ Len(ranges) = 2
    /\ stats.failed_ranges = <<ranges[1]>>
    /\ stats.empty_logs_chunks = 1
    /\ stats.successful_chunks = 1

\* ------------------------------------------------- generate_time_ranges, part 2
\* the number of calendar days of start_date .. end_date, both included
DayCount == end_date - start_date + 1

CeilDiv(n, d) == (n + d - 1) \div d

\* C18: for chunkDays >= 1 and an interval of N >= 1 calendar days,
\* generate_time_ranges returns ceil(N / chunkDays) ranges; range k starts at
\* 00:00:00 of day start + (k - 1) * chunkDays; every range but the last ends
\* at 23:59:59 of its chunkDays-th day and the last ends at 23:59:59 of the
\* end date; 2024-01-01 .. 2024-01-31 by 14 days gives exactly 01-01..01-14,
\* 01-15..01-28 and 01-29..01-31.
C18_ChunkCountAndSpan ==
    (pc # "gen" /\ start_date <= end_date /\ chunk_size_days >= 1) =>
        /\ RangeCount = CeilDiv(DayCount, chunk_size_days)
        /\ \A k \in 1..RangeCount :
              ranges[k][1] = StartOfDay(start_date + (k - 1) * chunk_size_days)
        /\ \A k \in 1..(RangeCount - 1) :
              /\ ranges[k][2] = EndOfDay(start_date + k * chunk_size_days - 1)
              /\ TAdd(TSub(ranges[k][2], ranges[k][1]), Seconds(1)) = Days(chunk_size_days)
        /\ ranges[RangeCount][2] = EndOfDay(end_date)
        /\ TLt(TSub(ranges[RangeCount][2], ranges[RangeCount][1]), Days(chunk_size_days))
        /\ <<start_date, end_date, chunk_size_days>> = JanuaryBy14 =>
              ranges = << <<StartOfDay(0), EndOfDay(13)>>,
                          <<StartOfDay(14), EndOfDay(27)>>,
                          <<StartOfDay(28), EndOfDay(30)>> >>

C18_Witness ==
    /\ pc = "loop"
    /\ <<start_date, end_date, chunk_size_days>> = JanuaryBy14
    /\ RangeCount = 3
    /\ ranges[3] = <<StartOfDay(28), EndOfDay(30)>>

\* ------------------------------------------------------- degenerate input
\* C19: when the start is after the end, generate_time_ranges returns an empty
\* sequence without raising, in the local CLI and in the orchestration Lambda,
\* and download_logs then returns its report with total_chunks = 0 without a
\* single process_time_range call or API call.
C19_DegenerateIsEmpty ==
    /\ start_date > end_date =>
          /\ ranges = <<>>
          /\ stack = <<>> /\ ret = NoRet /\ i = 0
          /\ hist.calls = ZeroCounts /\ hist.invocations = ZeroCounts
          /\ pc # "gen" => (stats.total_chunks = 0 /\ app_stats.total_chunks = 0)
          /\ pc = "gen" => ENABLED GenReturn
          /\ pc = "loop" => ENABLED DL_Return
          /\ files = {} /\ s3 = {}
    /\ TLt(orch_end, orch_start) =>
          /\ orch_ranges = <<>>
          /\ orch_pc = "gen" => ENABLED ORCH_GenReturn

C19_Witness ==
    /\ start_date > end_date
    /\ TLt(orch_end, orch_start)
    /\ orch_pc = "done" /\ orch_ranges = <<>>
    /\ pc = "done" /\ ranges = <<>>
    /\ stats.total_chunks = 0

\* C20: in the orchestration Lambda's generate_time_ranges adjacent chunks do
\* not overlap: for a chunk size of at least one day, chunk k + 1 begins after
\* chunk k ends, so no instant lies in the [startTime, endTime] of both.
C20_OrchChunksDisjoint ==
    orch_chunk >= 1 =>
        \A k \in 1..(Len(orch_ranges) - 1) :
            TLt(orch_ranges[k].endTime, orch_ranges[k + 1].startTime)

\* what the orchestration Lambda does instead: chunk k + 1 starts at the very
\* instant at which chunk k ends
OrchChunksShareBoundary ==
    orch_chunk >= 1 =>
        \A k \in 1..(Len(orch_ranges) - 1) :
            orch_ranges[k + 1].startTime = orch_ranges[k].endTime

\* ------------------------------------------------------- local CLI, part 4
\* C27: for start date <= end date and chunkDays >= 1 every range passed to
\* the remote log API has start <= end, as datetimes and as the timestamps
\* formatted to the second that the API receives: every range of
\* generate_time_ranges, and both halves of a bisection at every depth.
C27_RequestedRangesOrdered ==
    (start_date <= end_date /\ chunk_size_days >= 1) =>
        /\ \A k \in 1..Len(ranges) : TLe(ranges[k][1], ranges[k][2])
        /\ \A k \in 1..Len(stack) :
              /\ TLe(stack[k].start, stack[k].end)
              /\ FormatSeconds(stack[k].start) <= FormatSeconds(stack[k].end)
        /\ \A k \in SplitFrames :
              LET first == FirstHalf(stack[k].start, stack[k].end)
                  second == SecondHalf(stack[k].start, stack[k].end)
              IN  /\ TLe(first[1], first[2])
                  /\ TLe(second[1], second[2])

\* a half of a half of the second day's chunk is about to be requested
C27_Witness ==
    /\ Len(stack) = 3
    /\ Top.at = "entry" /\ Top.depth = DepthLimit
    /\ stack[1].start = StartOfDay(1)
    /\ stack[2].at = "second"
    /\ TLt(Top.start, Top.end)

\* an artifact written for a range inside this chunk: the key of a leaf is
\* its end time to the second
ArtifactsOf(chunk) ==
    { key \in Stored : FormatSeconds(chunk[1]) <= key /\ key <= FormatSeconds(chunk[2]) }

\* C28: every chunk that download_logs counts as successful and not empty has
\* at least one artifact stored for it: when process_time_range returns
\* (True, False) for a chunk, a file or an uploaded object of that chunk exists.
C28_SuccessHasArtifact ==
    (ChunkReturned /\ ret.success /\ ~ret.is_empty) => ArtifactsOf(ranges[i + 1]) # {}

\* C29: the counters of the first run stay consistent: successful_chunks +
\* failed_chunks is the number of chunks processed so far and is total_chunks
\* at completion; empty_logs_chunks <= successful_chunks, and at every split
\* depth a range is returned as empty only if it is returned as successful;
\* failed_ranges is as long as failed_chunks says.
C29_CountersConsistent ==
    /\ stats.successful_chunks + stats.failed_chunks = i
    /\ app_stats.successful_chunks + app_stats.failed_chunks = i
    /\ pc = "done" =>
          /\ stats.successful_chunks + stats.failed_chunks = stats.total_chunks
          /\ stats.total_chunks = Len(ranges)
          /\ app_stats.total_chunks = Len(ranges)
    /\ stats.empty_logs_chunks <= stats.successful_chunks
    /\ app_stats.empty_logs_chunks <= app_stats.successful_chunks
    /\ ret.is_empty => ret.success
    /\ \A k \in SplitFrames : stack[k].empty1 => stack[k].success1
    /\ Len(stats.failed_ranges) = stats.failed_chunks
    /\ Len(app_stats.failed_ranges) = app_stats.failed_chunks

\* the report of two chunks: one split into two empty halves, one failed
C29_Witness ==
    /\ pc = "done"
    /\ stats.total_chunks = 2
    /\ stats.successful_chunks = 1 /\ stats.empty_logs_chunks = 1
    /\ stats.failed_chunks = 1
    /\ hist.splits >= 1
    /\ hist.last.outcome = "split" /\ hist.last.depth = 0 /\ hist.last.success

\* C30: generate_time_ranges terminates for every input, a chunk size of 0 or
\* of a negative number of days included: current_start strictly increases in
\* every iteration of the loop.
C30_GeneratorProgress ==
    [][ ranges' # ranges => TLt(current_start, current_start') ]_vars

\* the innermost process_time_range invocation is about to call the log API
AboutToCall == stack # <<>> /\ Top.at = "entry" /\ ret = NoRet /\ ~DepthExceeded(Top.depth)

\* C24: on a needs-split signal the fixed delay is inserted before the
\* recursive fetches: the API call for the first half and the API call for
\* the second half are each preceded by a delay since the previous API call.
C24_DelayBeforeEachHalf ==
    (AboutToCall /\ Top.depth > 0) => hist.slept

\* C25: between the last remote call made for chunk i and the first remote
\* call made for chunk i+1 a delay always occurs, whatever the outcome of
\* chunk i.
C25_DelayBetweenChunks ==
    (AboutToCall /\ Top.depth = 0 /\ i >= 1) => hist.slept

\* the second chunk is about to be requested after the first one failed
C25_Witness ==
    /\ AboutToCall /\ Top.depth = 0 /\ i = 1
    /\ hist.last.outcome = "none"
    /\ stats.failed_chunks = 1
    /\ hist.slept

\* C26: execution is strictly sequential: the chunk in progress is the next
\* one in the order of generate_time_ranges, every chunk before it has its
\* outcome in the statistics, and only the innermost process_time_range
\* invocation is active (each one below it waits for the half it called), so
\* at most one remote request is outstanding at any time.
C26_StrictlySequential ==
    /\ i <= Len(ranges)
    /\ stats.successful_chunks + stats.failed_chunks = i
    /\ stack # <<>> =>
          /\ pc = "loop"
          /\ i < Len(ranges)
          /\ stack[1].depth = 0
          /\ <<stack[1].start, stack[1].end>> = ranges[i + 1]
    /\ \A k \in 1..(Len(stack) - 1) :
          /\ stack[k].at \in {"first", "second"}
          /\ stack[k + 1].depth = stack[k].depth + 1
          /\ <<stack[k + 1].start, stack[k + 1].end>> =
                IF stack[k].at = "first"
                THEN FirstHalf(stack[k].start, stack[k].end)
                ELSE SecondHalf(stack[k].start, stack[k].end)
    /\ (stack # <<>> /\ ret # NoRet) => Top.at \in {"first", "second"}
    /\ (stack = <<>> /\ ret # NoRet) => i < Len(ranges)

\* a half of the second chunk is in progress, the first chunk is accounted
C26_Witness ==
    /\ Len(ranges) = 2 /\ i = 1
    /\ Len(stack) = 2 /\ Top.at = "entry" /\ stack[1].at = "second"
    /\ stats.successful_chunks + stats.failed_chunks = 1

\* ------------------------------------------------- logging Lambda, part 3
\* the parameters the event format requires
RequiredParameters ==
    {"app.region", "app.appId", "app.domainName", "app.appName",
     "timeRange.startTime", "timeRange.endTime", "s3.bucket"}

\* C23: an event that lacks any required parameter fails the whole invocation
\* at once with an error result (statusCode 500) and nothing is attempted: no
\* temporary directory is created, no storage call and no log-API call is
\* made; the only step the handler can take is the one that returns the error.
C23_MissingParameterFailsFast ==
    ~(RequiredParameters \subseteq lam_event) =>
        /\ temp_dir = "none"
        /\ temp_files = <<>>
        /\ ~s3_called
        /\ lam_bucket = {}
        /\ lam_hist.calls = 0
        /\ lam_stack = <<>>
        /\ lam_ret = NoList
        /\ IF lam_result = NoResult
           THEN ENABLED LH_Invalid /\ ~ENABLED LH_Begin /\ ~ENABLED LH_BucketMissing
           ELSE lam_result.statusCode = 500 /\ ~ENABLED NextHandler

\* the handler returned the error for an event that has an s3 section
\* without its bucket
C23_Witness ==
    /\ lam_event = EventKeys \ {"s3.bucket"}
    /\ lam_result.set /\ lam_result.statusCode = 500
    /\ temp_dir = "none"

\* ------------------------------------------------------- local CLI, part 5
\* the uploads that failed in the current run
UploadFailuresOfRun ==
    Cardinality({ k \in 1..Len(rerun.log) : rerun.log[k].answer.upload # "ok" })

\* C21: the statistics are reset per run: the overall statistics the second
\* download_logs call on a downloader returns (successful, empty, failed and
\* upload-failure counts, the failed-range list) count the chunks of the
\* second call only, as the app_stats of that call do.
C21_StatsResetPerRun ==
    (rerun.run = 2 /\ pc = "done") =>
        /\ stats.successful_chunks = app_stats.successful_chunks
        /\ stats.empty_logs_chunks = app_stats.empty_logs_chunks
        /\ stats.failed_chunks = app_stats.failed_chunks
        /\ stats.failed_ranges = app_stats.failed_ranges
        /\ stats.upload_failures = UploadFailuresOfRun

IsPrefix(a, b) == Len(a) <= Len(b) /\ a = SubSeq(b, 1, Len(a))

\* the second run, so far, repeats the first: the same ranges generated, the
\* same ranges requested in the same order, no key that the first run did not
\* write; at its end the same requests and keys, and the same files and
\* objects exist as after the first run
RerunAgrees ==
    rerun.run = 2 =>
        /\ IsPrefix(ranges, rerun.first.ranges)
        /\ pc # "gen" => ranges = rerun.first.ranges
        /\ IsPrefix(rerun.log, rerun.first.log)
        /\ rerun.keys \subseteq rerun.first.keys
        /\ s3 = rerun.first.s3
        /\ pc = "done" =>
              /\ rerun.log = rerun.first.log
              /\ rerun.keys = rerun.first.keys
              /\ files = rerun.first.files

\* C22: re-running is deterministic: generate_time_ranges changes nothing but
\* its own list and returns the same sequence for the same arguments, and a
\* second download_logs run over the same dates against a remote that gives
\* the same responses requests the same sequence of ranges and writes the
\* same set of storage keys, so it overwrites artifacts and adds none.
C22_RerunDeterministic ==
    [][ /\ (pc = "gen" /\ pc' = "gen") =>
              UNCHANGED <<i, stack, ret, stats, app_stats, files, s3, rerun>>
        /\ RerunAgrees' ]_vars

\* the second run is over: it split its chunk and uploaded both halves again
C22_Witness ==
    /\ rerun.run = 2 /\ pc = "done"
    /\ Len(rerun.log) = 3
    /\ Cardinality(rerun.keys) = 2
    /\ rerun.keys = rerun.first.keys
    /\ s3 = rerun.keys

\* ------------------------------------------------- logging Lambda, part 4
\* C31: within one run no two distinct leaf ranges are persisted under the
\* same storage key (the Lambda keys on the leaf's start time, to whole
\* seconds): the paths a download returns, one per persisted leaf, are
\* pairwise different.
C31_LeafKeysDistinct ==
    \A j, k \in 1..Len(lam_ret.paths) : j # k => lam_ret.paths[j] # lam_ret.paths[k]

\* the delays of a retry loop so far: 2 s after the first failed attempt, 4 s
\* after the second, none after the third
BackoffSoFar(slept) == IsPrefix(slept, <<2, 4>>)

\* C32: in the Lambda's retry loops (log fetch and S3 upload) the delay slept
\* after the k-th failed attempt (k = 0, 1) is retry_delay * 2^k, 2 s then
\* 4 s, strictly increasing, and no delay is slept after the third failed
\* attempt: a fetch about to make attempt r has slept the first r of them,
\* an upload that succeeded at attempt n has slept n - 1 of them, one that
\* failed three times has slept two.
C32_ExponentialBackoff ==
    /\ BackoffSoFar(lam_hist.slept)
    /\ \A k \in 1..Len(lam_hist.slept) : lam_hist.slept[k] = retry_delay * (2 ^ (k - 1))
    /\ \A k \in 1..(Len(lam_hist.slept) - 1) : lam_hist.slept[k] < lam_hist.slept[k + 1]
    /\ (LamDownload /\ LamTop.at = "try") => Len(lam_hist.slept) = LamTop.retry
    /\ \A k \in 1..Len(lam_hist.uploads) :
          LET u == lam_hist.uploads[k]
          IN  /\ BackoffSoFar(u.slept)
              /\ Len(u.slept) = IF u.ok THEN u.attempts - 1 ELSE max_retries - 1

\* the fetch succeeded at its third attempt and the upload of its file failed
\* three times
C32_Witness ==
    /\ lam_result.set
    /\ lam_hist.last.attempts = max_retries
    /\ Len(lam_hist.uploads) = 1
    /\ ~lam_hist.uploads[1].ok
    /\ lam_hist.uploads[1].slept = <<2, 4>>

\* the handler's upload step has just been taken
UploadReturns == lam_result = NoResult /\ lam_result' # NoResult /\ lam_ret.paths # <<>>

RECURSIVE PathsOf(_)
PathsOf(done) ==
    IF done = <<>> THEN <<>> ELSE <<Head(done).path>> \o PathsOf(Tail(done))

IsOk(u) == u.ok

\* C34: upload_logs_to_s3 attempts each existing, non-empty file at most
\* max_retries = 3 times, stops at the file's first successful upload, goes
\* on with the remaining files after a file's attempts are exhausted, and
\* returns exactly the keys of the files whose upload succeeded, in list order.
C34_UploadLoop ==
    [][ UploadReturns =>
          LET done == lam_hist'.uploads
          IN  /\ PathsOf(done) =
                    SelectSeq(lam_ret.paths, LAMBDA q : InSet(Uploadable(lam_ret.paths), q))
              /\ \A k \in 1..Len(done) :
                    /\ done[k].attempts >= 1 /\ done[k].attempts <= 3
                    /\ done[k].ok <=> done[k].first_ok # 0
                    /\ done[k].ok => done[k].attempts = done[k].first_ok
                    /\ ~done[k].ok => done[k].attempts = 3
              /\ lam_result'.uploadedFiles = PathsOf(SelectSeq(done, IsOk))
              /\ lam_bucket' = lam_bucket \cup
                    { done[k].path : k \in { j \in 1..Len(done) : done[j].ok } } ]_vars

\* the first file's three attempts failed, the second file went through at
\* its second attempt and is the one key returned
C34_Witness ==
    /\ lam_result.set
    /\ Len(lam_hist.uploads) = 2
    /\ ~lam_hist.uploads[1].ok /\ lam_hist.uploads[1].attempts = 3
    /\ lam_hist.uploads[2].ok /\ lam_hist.uploads[2].attempts = 2
    /\ lam_result.uploadedFiles = <<lam_hist.uploads[2].path>>

\* C35: whenever the temporary directory has been created it has been
\* removed by the time the handler returns, on every path (upload done, no
\* logs found, bucket not accessible, an exception during download or
\* upload): a returned handler leaves no directory and no file, and only an
\* event that failed validation never had one.
C35_TempDirRemoved ==
    /\ lam_result # NoResult =>
          /\ temp_dir # "exists"
          /\ temp_files = <<>>
          /\ temp_dir = "none" => validate_parameters(lam_event) # ""
    /\ temp_dir = "exists" => lam_result = NoResult
    /\ temp_files # <<>> => temp_dir = "exists"

\* the handler returned on the no-logs path after an exception in the
\* download (caught there, [] returned): the directory it made is gone
C35_Witness ==
    /\ lam_result.set /\ lam_result.statusCode = 200
    /\ lam_result.message = NoLogsMessage
    /\ temp_dir = "removed"
    /\ lam_hist.last.outcome = "setup_failed"

\* ------------------------------------------------------ pipeline Lambda
\* C33: the pipeline Lambda starts the crawler at most once per invocation
\* and only when CRAWLER_NAME is set, the previous step's statusCode is absent
\* or 200, the event's uploadedFiles list is non-empty, the crawler exists and
\* its state is not RUNNING; in every other case start_crawler is never called.
C33_CrawlerStartedOnlyWhenDue ==
    /\ pipe_started <= 1
    /\ pipe_started = 1 =>
          /\ pipe_name # ""
          /\ ~pipe_event.statusCode.set \/ pipe_event.statusCode.code = 200
          /\ pipe_event.body = "dict" /\ pipe_event.uploaded >= 1
          /\ pipe_state \in {"READY", "STOPPING"}
          /\ pipe_pc = "done"

\* the crawler was started for an event without statusCode that lists files
C33_Witness ==
    /\ pipe_started = 1
    /\ pipe_result = 200
    /\ ~pipe_event.statusCode.set
    /\ pipe_event.uploaded = 1
    /\ pipe_state = "READY"

====
